---- MODULE Spec2Model ----
(***************************************************************************)
(* Element resolution and interaction of the webinteractiontools server:   *)
(* the in-page scripts of clickText / extractHTML (text matcher, depth     *)
(* sort, clickable-ancestor resolver, click synthesizer) and of            *)
(* clickSelector / hoverSelector (retry loop, visibility check).           *)
(*                                                                         *)
(* A document is a pre-order list of elements 1..NumNodes: element 1 is    *)
(* <html>, element 2 is <body>, every other element lies inside <body>.    *)
(* Each element owns at most one text node, placed before its child        *)
(* elements.  Strings are sequences of characters.                         *)
(***************************************************************************)
EXTENDS Integers, Sequences, FiniteSets, TLC

VARIABLES dom, page, call, pc, result, outcome, events, candidate, resolved, sel,
          session, world, procs, server, nav, shot, js, snap, form, listing

\* The state of one call of a tool that runs a script in the page.
pageVars == <<dom, page, call, pc, result, outcome, events, candidate, resolved, sel>>

\* The state of the server around the page: the BrowserSession object, the
\* browsers and pages it created, its callers, the request dispatcher, a
\* navigate call and a screenshot being processed.
hostVars == <<session, world, procs, server, nav, shot, js, snap, form, listing>>

vars == <<pageVars, hostVars>>

\* Number of elements of the document (html and body included).
NumNodes == 4

\* Element 2 is document.body.
Body == 2

Nodes == 1..NumNodes

\* ------------------------------------------------------------------ strings

Includes(s, t) ==
    \E i \in 0..(Len(s) - Len(t)) : SubSeq(s, i + 1, i + Len(t)) = t

RECURSIVE TrimStart(_)
TrimStart(s) ==
    IF s # <<>> /\ Head(s) = " " THEN TrimStart(Tail(s)) ELSE s

RECURSIVE TrimEnd(_)
TrimEnd(s) ==
    IF s # <<>> /\ s[Len(s)] = " " THEN TrimEnd(SubSeq(s, 1, Len(s) - 1)) ELSE s

Trim(s) == TrimEnd(TrimStart(s))

\* ------------------------------------------------------------ element kinds

\* Element.tagName: upper case for an HTML element, as written otherwise.
TagName(k) ==
    IF k.html
    THEN CASE k.tag = "div"    -> "DIV"
           [] k.tag = "button" -> "BUTTON"
           [] k.tag = "a"      -> "A"
           [] k.tag = "script" -> "SCRIPT"
           [] k.tag = "style"  -> "STYLE"
           [] k.tag = "html"   -> "HTML"
           [] k.tag = "body"   -> "BODY"
           [] OTHER            -> k.tag
    ELSE k.tag

\* String.prototype.toLowerCase on the tag names of the model.
ToLowerCase(t) ==
    CASE t = "DIV"    -> "div"
      [] t = "BUTTON" -> "button"
      [] t = "A"      -> "a"
      [] t = "SCRIPT" -> "script"
      [] t = "STYLE"  -> "style"
      [] t = "HTML"   -> "html"
      [] t = "BODY"   -> "body"
      [] OTHER        -> t

Kind(tag, html, onclick, role, tabindex, cursor, target) ==
    [tag |-> tag, html |-> html, onclick |-> onclick, role |-> role,
     tabindex |-> tabindex, cursor |-> cursor, target |-> target]

KHtml     == Kind("html",   TRUE,  FALSE, "",       FALSE, "auto",    FALSE)
KBody     == Kind("body",   TRUE,  FALSE, "",       FALSE, "auto",    FALSE)
KDiv      == Kind("div",    TRUE,  FALSE, "",       FALSE, "auto",    FALSE)
KScript   == Kind("script", TRUE,  FALSE, "",       FALSE, "auto",    FALSE)
KButton   == Kind("button", TRUE,  FALSE, "",       FALSE, "auto",    FALSE)
KAnchor   == Kind("a",      TRUE,  FALSE, "",       FALSE, "auto",    TRUE)
KRole     == Kind("div",    TRUE,  FALSE, "button", FALSE, "auto",    FALSE)
KTabindex == Kind("div",    TRUE,  FALSE, "",       TRUE,  "auto",    FALSE)
\* An SVG <text role="button">: an Element that is not an HTMLElement.
KSvgRole  == Kind("text",   FALSE, FALSE, "button", FALSE, "auto",    FALSE)


\* ---------------------------------------------------------------- documents

\* Element.parentElement; 0 is null.
parentElement(d, el) == d.parent[el]

RECURSIVE IsAncestor(_, _, _)
IsAncestor(d, a, el) ==
    /\ parentElement(d, el) # 0
    /\ \/ parentElement(d, el) = a
       \/ IsAncestor(d, a, parentElement(d, el))

\* document.querySelectorAll('*'): every element, in document order.
allElements(d) == [i \in 1..Len(d.parent) |-> i]

\* el.querySelectorAll('*'): the descendants of el in document order.
RECURSIVE DescendantsFrom(_, _, _)
DescendantsFrom(d, el, i) ==
    IF i > Len(d.parent) THEN <<>>
    ELSE (IF IsAncestor(d, el, i) THEN <<i>> ELSE <<>>)
         \o DescendantsFrom(d, el, i + 1)

querySelectorAllOf(d, el) == DescendantsFrom(d, el, 1)

\* Node.textContent of an element: its text nodes and those of its
\* descendants, concatenated in document order.
RECURSIVE ConcatText(_, _, _)
ConcatText(d, el, i) ==
    IF i > Len(d.parent) THEN <<>>
    ELSE (IF i = el \/ IsAncestor(d, el, i) THEN d.text[i] ELSE <<>>)
         \o ConcatText(d, el, i + 1)

textContent(d, el) == ConcatText(d, el, 1)

\* Element.closest('a'); 0 is null.
RECURSIVE closestA(_, _)
closestA(d, el) ==
    IF el = 0 THEN 0
    ELSE IF d.kind[el].tag = "a" THEN el
    ELSE closestA(d, parentElement(d, el))

\* ------------------------------------------------------------ text matcher

CLICKABLE_TAGS == {"a", "button", "input", "select", "textarea", "label"}
CLICKABLE_ROLES == {"button", "link", "tab", "menuitem"}
IGNORED_TAGS == {"SCRIPT", "STYLE"}

isClickable(d, el) ==
    LET k == d.kind[el]
        tagName == ToLowerCase(TagName(k))
    IN  \/ tagName \in CLICKABLE_TAGS
        \/ /\ k.html
           /\ \/ k.onclick
              \/ (k.role # "" /\ k.role \in CLICKABLE_ROLES)
              \/ k.tabindex
              \/ k.cursor = "pointer"

RECURSIVE getDepthFrom(_, _)
getDepthFrom(d, current) ==
    IF current = 0 THEN 0 ELSE 1 + getDepthFrom(d, parentElement(d, current))

getDepth(d, el) == getDepthFrom(d, parentElement(d, el))

\* The element owns a non-empty text node that contains searchText.
hasDirectTextContent(d, element, searchText) ==
    d.text[element] # <<>> /\ Includes(d.text[element], searchText)

IsMatch(d, element, text) ==
    /\ TagName(d.kind[element]) \notin IGNORED_TAGS
    /\ \/ hasDirectTextContent(d, element, text)
       \/ Trim(textContent(d, element)) = text

\* The loop over allElements that fills matchingElements.
RECURSIVE CollectMatches(_, _, _)
CollectMatches(d, text, i) ==
    IF i > Len(allElements(d)) THEN <<>>
    ELSE LET element == allElements(d)[i]
         IN  (IF IsMatch(d, element, text)
              THEN <<[element |-> element, depth |-> getDepth(d, element)]>>
              ELSE <<>>)
             \o CollectMatches(d, text, i + 1)

\* Array.prototype.sort with compare (a, b) => b.depth - a.depth: a stable
\* sort, so x goes before the first entry the comparison puts after it.
\* An unstable sort: equal depths end in reverse document order.
RECURSIVE InsertSortedUnstable(_, _)
InsertSortedUnstable(sorted, x) ==
    IF sorted = <<>> THEN <<x>>
    ELSE IF x.depth - Head(sorted).depth >= 0
         THEN <<x>> \o sorted
         ELSE <<Head(sorted)>> \o InsertSortedUnstable(Tail(sorted), x)

RECURSIVE InsertSorted(_, _)
InsertSorted(sorted, x) ==
    IF sorted = <<>> THEN <<x>>
    ELSE IF x.depth - Head(sorted).depth > 0
         THEN <<x>> \o sorted
         ELSE <<Head(sorted)>> \o InsertSorted(Tail(sorted), x)

RECURSIVE SortByDepth(_)
SortByDepth(ms) ==
    IF ms = <<>> THEN <<>>
    ELSE InsertSorted(SortByDepth(SubSeq(ms, 1, Len(ms) - 1)), ms[Len(ms)])

matchingElements(d, text) == SortByDepth(CollectMatches(d, text, 1))

\* ------------------------------------------------- clickable-ancestor resolver

RECURSIVE FirstClickableChild(_, _, _)
FirstClickableChild(d, text, children) ==
    IF children = <<>> THEN 0
    ELSE LET child == Head(children)
         IN  IF /\ textContent(d, child) # <<>>
                /\ Includes(textContent(d, child), text)
                /\ isClickable(d, child)
             THEN child
             ELSE FirstClickableChild(d, text, Tail(children))

\* The ancestor walk that tests the parent's parent before the parent.
RECURSIVE ClickableParentTestedLate(_, _)
ClickableParentTestedLate(d, parent) ==
    IF parent = 0 \/ parent = Body THEN 0
    ELSE LET next == parentElement(d, parent)
         IN  IF next = 0 \/ next = Body THEN 0
             ELSE IF isClickable(d, next) THEN next
             ELSE ClickableParentTestedLate(d, next)

RECURSIVE FirstClickableParent(_, _)
FirstClickableParent(d, parent) ==
    IF parent = 0 \/ parent = Body THEN 0
    ELSE IF isClickable(d, parent) THEN parent
    ELSE FirstClickableParent(d, parentElement(d, parent))

\* The resolver searching the descendants before looking at the element.
findClickableElementChildFirst(d, text, textElement) ==
    LET clickableChild ==
            FirstClickableChild(d, text, querySelectorAllOf(d, textElement))
        parent == FirstClickableParent(d, parentElement(d, textElement))
    IN  IF clickableChild # 0 THEN clickableChild
        ELSE IF isClickable(d, textElement) THEN textElement
        ELSE IF parent # 0 THEN parent
        ELSE textElement

\* The resolver walking the ancestors before searching the descendants.
findClickableElementParentFirst(d, text, textElement) ==
    IF isClickable(d, textElement) THEN textElement
    ELSE LET clickableChild ==
                 FirstClickableChild(d, text, querySelectorAllOf(d, textElement))
             parent == FirstClickableParent(d, parentElement(d, textElement))
         IN  IF parent # 0 THEN parent
             ELSE IF clickableChild # 0 THEN clickableChild
             ELSE textElement

findClickableElement(d, text, textElement) ==
    IF isClickable(d, textElement) THEN textElement
    ELSE LET clickableChild ==
                 FirstClickableChild(d, text, querySelectorAllOf(d, textElement))
             parent == FirstClickableParent(d, parentElement(d, textElement))
         IN  IF clickableChild # 0 THEN clickableChild
             ELSE IF parent # 0 THEN parent
             ELSE textElement


\* ------------------------------------------------------ interaction synthesizer

\* What the native primitive element.click does when the script reaches it:
\* it completes, it throws, or element.click is not a function at all.
NativeClick == {"ok", "throws", "absent"}

\* What element.dispatchEvent does: it completes or it throws.
Dispatch == {"ok", "throws"}

\* An event or native interaction on target; page is the page as it was
\* when the event was dispatched.
DomEvent(kind, type, target, bubbles, cancelable, centre, threw, pg) ==
    [kind |-> kind, type |-> type, target |-> target, bubbles |-> bubbles,
     cancelable |-> cancelable, centre |-> centre, threw |-> threw,
     page |-> pg]

\* A click by strategy kind: "Native" is element.click(), "MouseEvent" the
\* bubbling, cancelable MouseEvent at the centre of the element's client
\* rect, "Event" the bare bubbling Event.
ClickEvent(kind, target, threw, pg) ==
    DomEvent(kind, "click", target, TRUE, kind # "Event",
             kind = "MouseEvent", threw, pg)

\* performClick: the page it leaves, the strategies it attempted, and
\* whether it threw.
\* performClick with the click ahead of the anchor interception.
performClickBeforeIntercept(d, pg, element, native, synthetic) ==
    LET linkElement == IF TagName(d.kind[element]) = "A" THEN element
                       ELSE closestA(d, element)
        pg1 == IF linkElement # 0
               THEN [target |-> [pg.target EXCEPT ![linkElement] = FALSE],
                     windowOpen |-> "patched"]
               ELSE pg
    IN  IF native # "absent"
        THEN [page |-> pg1,
              events |-> <<ClickEvent("Native", element, native = "throws", pg)>>,
              threw |-> native = "throws"]
        ELSE [page |-> pg1,
              events |-> <<ClickEvent("MouseEvent", element,
                                      synthetic = "throws", pg)>>,
              threw |-> synthetic = "throws"]

performClick(d, pg, element, native, synthetic) ==
    LET linkElement == IF TagName(d.kind[element]) = "A" THEN element
                       ELSE closestA(d, element)
        pg1 == IF linkElement # 0
               THEN [target |-> [pg.target EXCEPT ![linkElement] = FALSE],
                     windowOpen |-> "patched"]
               ELSE pg
    IN  IF native # "absent"
        THEN [page |-> pg1,
              events |-> <<ClickEvent("Native", element, native = "throws", pg1)>>,
              threw |-> native = "throws"]
        ELSE [page |-> pg1,
              events |-> <<ClickEvent("MouseEvent", element,
                                      synthetic = "throws", pg1)>>,
              threw |-> synthetic = "throws"]

\* ------------------------------------------------------------------- state

\* What page.evaluate gave the handler.  clicked also stands for the found
\* field of extractHTML and of the selector tools, totalMatches for count.
NoResult == [status |-> "none", clicked |-> FALSE, totalMatches |-> 0,
             tagName |-> "null", reason |-> "", attempt |-> 0]

Returned(clicked, totalMatches, tagName) ==
    [status |-> "returned", clicked |-> clicked,
     totalMatches |-> totalMatches, tagName |-> tagName,
     reason |-> "", attempt |-> 0]

\* The result of the selector scripts: {found, attempt, tagName} or
\* {found: false, reason}.
SelReturned(found, reason, attempt, tagName) ==
    [status |-> "returned", clicked |-> found, totalMatches |-> 0,
     tagName |-> tagName, reason |-> reason, attempt |-> attempt]

\* page.evaluate rejected: the script threw.
Threw == [status |-> "threw", clicked |-> FALSE, totalMatches |-> 0,
          tagName |-> "null", reason |-> "", attempt |-> 0]

Pending == [kind |-> "pending", occurrence |-> 0, matches |-> 0,
            waited |-> FALSE]

Outcome(kind, occurrence, matches, waited) ==
    [kind |-> kind, occurrence |-> occurrence, matches |-> matches,
     waited |-> waited]

\* What the selector currently matches: nothing, or an element with the
\* rendered size, computed style and disabled attribute the check reads.
Absent == [present |-> FALSE, width |-> 0, height |-> 0,
           visibility |-> "visible", display |-> "block", disabled |-> FALSE]

Rendered(width, height, visibility, display, disabled) ==
    [present |-> TRUE, width |-> width, height |-> height,
     visibility |-> visibility, display |-> display, disabled |-> disabled]

ElemStates ==
    {Absent,
     Rendered(10, 10, "visible", "block", FALSE),
     Rendered(0, 10, "visible", "block", FALSE),
     Rendered(10, 0, "visible", "block", FALSE),
     Rendered(10, 10, "hidden", "block", FALSE),
     Rendered(0, 0, "visible", "none", FALSE),
     Rendered(10, 10, "visible", "block", TRUE)}

\* The selector loop: the element the selector names and its current
\* state, the loop counter, and the queries and waits made so far.
NoSel == [node |-> 0, elem |-> Absent, attempt |-> 0, queries |-> 0,
          waits |-> 0, waitedMs |-> 0, seen |-> <<>>]

\* new BrowserSession(): no browser (0), no page (0), headless mode current.
\* The JavaScript values true, false and undefined are written as strings.
NewSession == [browser |-> 0, page |-> 0, currentHeadlessMode |-> "true"]

\* The browsers launched and the pages created so far, and the calls of
\* the session's methods with what each did.
NoWorld == [browsers |-> <<>>, pages |-> <<>>, calls |-> <<>>]

\* A caller of the session that is in no call.
IdleProc == [pc |-> "idle", call |-> 0, useHeadless |-> "true", b |-> 0]

\* The dispatcher before any request: the tool calls received and the
\* handler invocations made.
NoServer == [calls |-> <<>>, invoked |-> <<>>]

\* No navigate call.
NoNav == [pc |-> "none", timeout |-> 0, waitForSelector |-> "",
          waitUntil |-> "undefined", steps |-> <<>>, error |-> "", result |-> ""]

\* A number that is undefined.
UndefinedNumber == -1

\* No screenshot being processed.
NoShot == [pc |-> "none", provider |-> [given |-> FALSE, value |-> ""],
           width |-> 0, height |-> 0,
           providerConfig |-> [name |-> "", maxImageDimension |-> UndefinedNumber,
                               own |-> FALSE],
           newWidth |-> 0, newHeight |-> 0, wasResized |-> FALSE,
           processedImage |-> [width |-> 0, height |-> 0, buffer |-> "none"]]

\* The server around the page at rest.
\* No executeJavaScript call: the code, the value of the page's counter n
\* before the call and now, the runs of the code, the script's result.
NoJs == [pc |-> "none", code |-> "", before |-> 0, effects |-> 0,
         runs |-> <<>>, result |-> [success |-> FALSE, value |-> ""]]

\* No screenshot call.
NoSnap == [pc |-> "none", call |-> 0, page |-> 0, error |-> ""]

\* No fillForm call.
NoForm == [pc |-> "none", fields |-> <<>>, results |-> <<>>, values |-> <<>>,
           successCount |-> 0, failureCount |-> 0]

\* No getElements call.
NoListing == [pc |-> "none", matching |-> 0, viewport |-> "none",
              args |-> [type |-> "undefined", scope |-> "undefined",
                        page |-> [given |-> FALSE, value |-> 0]],
              pageNumber |-> 0, elements |-> <<>>, totalPages |-> 0,
              showing |-> FALSE, shown |-> <<>>,
              hint |-> [given |-> FALSE, page |-> 0]]

\* No executeJavaScript, screenshot, fillForm or getElements call.
ToolsIdle ==
    /\ js = NoJs
    /\ snap = NoSnap
    /\ form = NoForm
    /\ listing = NoListing

HostIdle ==
    /\ session = NewSession
    /\ world = NoWorld
    /\ procs = <<>>
    /\ server = NoServer
    /\ nav = NoNav
    /\ shot = NoShot
    /\ ToolsIdle

\* ---------------------------------------------------- clickText, extractHTML

\* The bound check off by one.
OccurrenceTooLargeOffByOne(occurrence, ms) == occurrence > Len(ms) + 1

\* The check "occurrence > matchingElements.length" of both scripts.
OccurrenceTooLarge(occurrence, ms) == occurrence > Len(ms)

\* The handler without its totalMatches === 0 branch.
NotClickedErrorNoZeroCase(res, occurrence) ==
    Outcome("OutOfRange", occurrence, res.totalMatches, FALSE)

\* The error either handler throws when the script reports no click.
NotClickedError(res, occurrence) ==
    IF res.totalMatches = 0
    THEN Outcome("NotFound", occurrence, 0, FALSE)
    ELSE Outcome("OutOfRange", occurrence, res.totalMatches, FALSE)

\* The script clickText passes to page.evaluate.
ClickTextScript ==
    /\ pc = "start"
    /\ call.tool = "clickText"
    /\ LET ms == matchingElements(dom, call.text)
           occurrence == call.occurrence
       IN  IF Len(ms) = 0
           THEN /\ result' = Returned(FALSE, 0, "null")
                /\ UNCHANGED <<page, events, candidate, resolved>>
           ELSE IF OccurrenceTooLarge(occurrence, ms)
           THEN /\ result' = Returned(FALSE, Len(ms), "null")
                /\ UNCHANGED <<page, events, candidate, resolved>>
           ELSE IF occurrence \notin DOMAIN ms
           THEN \* matchingElements[occurrence - 1] is undefined and
                \* match.element throws a TypeError
                /\ result' = Threw
                /\ UNCHANGED <<page, events, candidate, resolved>>
           ELSE LET match == ms[occurrence]
                    targetElement ==
                        findClickableElement(dom, call.text, match.element)
                IN  /\ candidate' = match.element
                    /\ resolved' = targetElement
                    /\ IF dom.kind[targetElement].html
                       THEN \E native \in NativeClick, synthetic \in Dispatch,
                               bare \in Dispatch :
                              LET click == performClick(dom, page, targetElement,
                                                        native, synthetic)
                              IN  /\ page' = click.page
                                  /\ events' =
                                       IF click.threw
                                       THEN click.events \o
                                            <<ClickEvent("Event", targetElement,
                                                         bare = "throws",
                                                         click.page)>>
                                       ELSE click.events
                                  /\ result' =
                                       IF click.threw /\ bare = "throws"
                                       THEN \* the dispatch in the catch block
                                            \* throws
                                            Threw
                                       ELSE Returned(TRUE, Len(ms),
                                                TagName(dom.kind[targetElement]))
                       ELSE /\ result' = Returned(FALSE, Len(ms), "null")
                            /\ UNCHANGED <<page, events>>
    /\ pc' = "evaluated"
    /\ UNCHANGED <<dom, call, outcome, sel>>
    /\ UNCHANGED hostVars

\* The rest of the clickText handler: the errors it throws, the wait.
ClickTextFinish ==
    /\ pc = "evaluated"
    /\ call.tool = "clickText"
    /\ outcome' =
         IF result.status = "threw"
         THEN Outcome("ScriptError", call.occurrence, 0, FALSE)
         ELSE IF ~result.clicked
         THEN NotClickedError(result, call.occurrence)
         ELSE Outcome("ok", call.occurrence, result.totalMatches, TRUE)
    /\ pc' = "done"
    /\ UNCHANGED <<dom, page, call, result, events, candidate, resolved, sel>>
    /\ UNCHANGED hostVars

\* The script extractHTML passes to page.evaluate (found is result.clicked,
\* count is result.totalMatches).  The cleaned clone it serialises is built
\* from the selected element and leaves the page as it is.
ExtractHTMLScript ==
    /\ pc = "start"
    /\ call.tool = "extractHTML"
    /\ LET ms == matchingElements(dom, call.text)
           occurrence == call.occurrence
       IN  IF Len(ms) = 0
           THEN /\ result' = Returned(FALSE, 0, "null")
                /\ UNCHANGED <<candidate, resolved>>
           ELSE IF OccurrenceTooLarge(occurrence, ms)
           THEN /\ result' = Returned(FALSE, Len(ms), "null")
                /\ UNCHANGED <<candidate, resolved>>
           ELSE IF occurrence \notin DOMAIN ms
           THEN /\ result' = Threw
                /\ UNCHANGED <<candidate, resolved>>
           ELSE LET match == ms[occurrence]
                IN  /\ candidate' = match.element
                    /\ resolved' = match.element
                    /\ result' = Returned(TRUE, Len(ms),
                                          TagName(dom.kind[match.element]))
    /\ pc' = "evaluated"
    /\ UNCHANGED <<dom, page, call, outcome, events, sel>>
    /\ UNCHANGED hostVars

ExtractHTMLFinish ==
    /\ pc = "evaluated"
    /\ call.tool = "extractHTML"
    /\ outcome' =
         IF result.status = "threw"
         THEN Outcome("ScriptError", call.occurrence, 0, FALSE)
         ELSE IF ~result.clicked
         THEN NotClickedError(result, call.occurrence)
         ELSE Outcome("ok", call.occurrence, result.totalMatches, FALSE)
    /\ pc' = "done"
    /\ UNCHANGED <<dom, page, call, result, events, candidate, resolved, sel>>
    /\ UNCHANGED hostVars

\* ------------------------------------------------------------ the documents

IsPreorder(p) ==
    /\ p[1] = 0
    /\ p[Body] = 1
    /\ \A n \in 3..Len(p) :
         /\ p[n] \in Body..(n - 1)
         /\ \/ p[n] = n - 1
            \/ IsAncestor([parent |-> p], p[n], n - 1)

DocShapes == {p \in [Nodes -> 0..NumNodes] : IsPreorder(p)}

\* The documents whose elements inside body have the given kinds and texts.
\* A script element has no child element.
Docs(kinds, texts) ==
    {d \in [parent : DocShapes,
            kind : {k \in [Nodes -> kinds \cup {KHtml, KBody}] :
                      /\ k[1] = KHtml
                      /\ k[Body] = KBody
                      /\ \A n \in 3..NumNodes : k[n] \in kinds},
            text : {t \in [Nodes -> texts \cup {<<>>}] :
                      t[1] = <<>> /\ t[Body] = <<>>}] :
       \A n \in Nodes : d.kind[n].tag = "script" => \A m \in Nodes : d.parent[m] # n}

InitText(kinds, texts, queries, tools, occurrences) ==
    /\ dom \in Docs(kinds, texts)
    /\ page = [target |-> [n \in Nodes |-> dom.kind[n].target],
               windowOpen |-> "native"]
    /\ call \in [tool : tools, text : queries, occurrence : occurrences]
    /\ pc = "start"
    /\ result = NoResult
    /\ outcome = Pending
    /\ events = <<>>
    /\ candidate = 0
    /\ resolved = 0
    /\ sel = NoSel
    /\ HostIdle

NextText ==
    \/ ClickTextScript
    \/ ClickTextFinish
    \/ ExtractHTMLScript
    \/ ExtractHTMLFinish

MatchTexts == {<<"x">>, <<" ", "x">>, <<"x", "y">>}
MatchQueries == {<<"x">>, <<"x", "y">>}

\* Occurrences from below 1 to beyond any match count.
InitMatch ==
    InitText({KDiv, KScript}, MatchTexts, MatchQueries,
             {"clickText", "extractHTML"}, (-1)..(NumNodes + 1))

SpecMatch == InitMatch /\ [][NextText]_vars

ResolveKinds == {KDiv, KButton, KAnchor, KRole, KTabindex, KSvgRole}

\* The deepest match and the next one.
ResolveOccurrences == {1, 2}

InitResolve ==
    InitText(ResolveKinds, {<<"x">>}, {<<"x">>}, {"clickText"}, ResolveOccurrences)

NextResolve ==
    \/ ClickTextScript
    \/ ClickTextFinish

SpecResolve == InitResolve /\ [][NextResolve]_vars

\* Number of elements of a document in which an element inside body has
\* an ancestor below body and two descendants.
DeepSize == 6

DeepNodes == 1..DeepSize

\* Element 3 lies in body, element 4 in element 3, every later element
\* below element 4.
DeepShapes ==
    {p \in {[n \in DeepNodes |-> IF n <= 4 THEN n - 1 ELSE q[n]] :
                q \in [5..DeepSize -> 4..DeepSize]} : IsPreorder(p)}

\* The documents of these shapes; element 3 has no text node.
DeepDocs(kinds, texts) ==
    [parent : DeepShapes,
     kind : {k \in [DeepNodes -> kinds \cup {KHtml, KBody}] :
               /\ k[1] = KHtml
               /\ k[Body] = KBody
               /\ \A n \in 3..DeepSize : k[n] \in kinds},
     text : {t \in [DeepNodes -> texts \cup {<<>>}] :
               t[1] = <<>> /\ t[Body] = <<>> /\ t[3] = <<>>}]

DeepKinds == {KDiv, KButton}

\* The deepest match and the third one.
DeepOccurrences == {1, 3}

InitDeep ==
    /\ dom \in DeepDocs(DeepKinds, {<<"x">>})
    /\ page = [target |-> [n \in DeepNodes |-> dom.kind[n].target],
               windowOpen |-> "native"]
    /\ call \in [tool : {"clickText"}, text : {<<"x">>},
                 occurrence : DeepOccurrences]
    /\ pc = "start"
    /\ result = NoResult
    /\ outcome = Pending
    /\ events = <<>>
    /\ candidate = 0
    /\ resolved = 0
    /\ sel = NoSel
    /\ HostIdle

SpecDeep == InitDeep /\ [][NextResolve]_vars


\* ------------------------------------------- clickSelector, hoverSelector

\* The loop bound of "for (let attempt = 1; attempt <= 3; attempt++)".
MaxAttempts == 3

\* The delay of the in-page setTimeout between the two queries of an attempt.
RetryDelayMs == 1000

\* The check without its disabled clause.
SelectorIsClickableNoDisabled(e) ==
    /\ e.width > 0
    /\ e.height > 0
    /\ e.visibility # "hidden"
    /\ e.display # "none"

\* isClickable of the clickSelector script.
SelectorIsClickable(e) ==
    /\ e.width > 0
    /\ e.height > 0
    /\ e.visibility # "hidden"
    /\ e.display # "none"
    /\ ~e.disabled

\* isVisible of the hoverSelector script.
SelectorIsVisible(e) ==
    /\ e.width > 0
    /\ e.height > 0
    /\ e.visibility # "hidden"
    /\ e.display # "none"

\* The anchor interception: the target attribute of the nearest anchor is
\* removed and window.open is replaced.
InterceptAnchor(d, pg, element) ==
    LET linkElement == IF TagName(d.kind[element]) = "A" THEN element
                       ELSE closestA(d, element)
    IN  IF linkElement # 0
        THEN [target |-> [pg.target EXCEPT ![linkElement] = FALSE],
              windowOpen |-> "patched"]
        ELSE pg

\* The block clicking before it checks.
ClickSelectorFoundClickFirst(d, pg, s, native) ==
    [page |-> InterceptAnchor(d, pg, s.node),
     events |-> IF native = "absent" THEN <<>>
                ELSE <<ClickEvent("Native", s.node, native = "throws",
                                  InterceptAnchor(d, pg, s.node))>>,
     result |-> IF native # "ok" THEN Threw
                ELSE IF SelectorIsClickable(s.elem)
                THEN SelReturned(TRUE, "", s.attempt, TagName(d.kind[s.node]))
                ELSE SelReturned(FALSE, "not clickable", 0, "null")]

\* The "if (element) { ... }" block of the clickSelector script.
ClickSelectorFound(d, pg, s, native) ==
    IF SelectorIsClickable(s.elem)
    THEN [page |-> InterceptAnchor(d, pg, s.node),
          events |-> IF native = "absent" THEN <<>>
                     ELSE <<ClickEvent("Native", s.node, native = "throws",
                                       InterceptAnchor(d, pg, s.node))>>,
          result |-> IF native = "ok"
                     THEN SelReturned(TRUE, "", s.attempt, TagName(d.kind[s.node]))
                     ELSE Threw]
    ELSE [page |-> pg,
          events |-> <<>>,
          result |-> SelReturned(FALSE, "not clickable", 0, "null")]

\* The three events with mouseenter dispatched first.
HoverEventsEnterFirst(element, pg) ==
    <<DomEvent("MouseEvent", "mouseenter", element, FALSE, TRUE, TRUE, FALSE, pg),
      DomEvent("MouseEvent", "mousemove", element, TRUE, TRUE, TRUE, FALSE, pg),
      DomEvent("MouseEvent", "mouseover", element, TRUE, TRUE, TRUE, FALSE, pg)>>

\* The mousemove, mouseover and mouseenter events the hover scripts
\* dispatch to the element.
HoverEvents(element, pg) ==
    <<DomEvent("MouseEvent", "mousemove", element, TRUE, TRUE, TRUE, FALSE, pg),
      DomEvent("MouseEvent", "mouseover", element, TRUE, TRUE, TRUE, FALSE, pg),
      DomEvent("MouseEvent", "mouseenter", element, FALSE, TRUE, TRUE, FALSE, pg)>>

\* The "if (element) { ... }" block of the hoverSelector script.
HoverSelectorFound(d, pg, s) ==
    IF SelectorIsVisible(s.elem)
    THEN [page |-> pg,
          events |-> HoverEvents(s.node, pg),
          result |-> SelReturned(TRUE, "", s.attempt, TagName(d.kind[s.node]))]
    ELSE [page |-> pg,
          events |-> <<>>,
          result |-> SelReturned(FALSE, "not visible", 0, "null")]

SelectorFound(d, pg, s, tool, native) ==
    IF tool = "clickSelector" THEN ClickSelectorFound(d, pg, s, native)
    ELSE HoverSelectorFound(d, pg, s)

\* A loop that stops one attempt early.
LoopContinuesOneShort(attempt) == attempt < MaxAttempts

\* The loop condition "attempt <= 3".
LoopContinues(attempt) == attempt <= MaxAttempts

IsSelectorTool == call.tool \in {"clickSelector", "hoverSelector"}

\* page.evaluate starts the script: the loop is entered with attempt = 1.
SelectorStart ==
    /\ pc = "start"
    /\ IsSelectorTool
    /\ sel' = [sel EXCEPT !.attempt = 1]
    /\ pc' = "query"
    /\ UNCHANGED <<dom, page, call, result, outcome, events, candidate, resolved>>
    /\ UNCHANGED hostVars

\* The first document.querySelector of an attempt.
SelectorQuery ==
    /\ pc = "query"
    /\ IsSelectorTool
    /\ \E native \in NativeClick :
         LET s == [sel EXCEPT !.queries = @ + 1,
                              !.seen = Append(@, sel.elem)]
             found == SelectorFound(dom, page, s, call.tool, native)
         IN  /\ sel' = s
             /\ IF sel.elem.present
                THEN /\ page' = found.page
                     /\ events' = events \o found.events
                     /\ result' = found.result
                     /\ pc' = "evaluated"
                ELSE /\ pc' = "waiting"
                     /\ UNCHANGED <<page, events, result>>
    /\ UNCHANGED <<dom, call, outcome, candidate, resolved>>
    /\ UNCHANGED hostVars

\* The awaited setTimeout: the script resumes after RetryDelayMs, and the
\* page may have changed what the selector matches in the meantime.
SelectorWait ==
    /\ pc = "waiting"
    /\ IsSelectorTool
    /\ \E e \in ElemStates :
         sel' = [sel EXCEPT !.elem = e, !.waits = @ + 1,
                            !.waitedMs = @ + RetryDelayMs]
    /\ pc' = "requery"
    /\ UNCHANGED <<dom, page, call, result, outcome, events, candidate, resolved>>
    /\ UNCHANGED hostVars

\* The second document.querySelector of an attempt, the check of what it
\* found, and the step to the next attempt or out of the loop.
SelectorRequery ==
    /\ pc = "requery"
    /\ IsSelectorTool
    /\ \E native \in NativeClick :
         LET s == [sel EXCEPT !.queries = @ + 1,
                              !.seen = Append(@, sel.elem)]
             found == SelectorFound(dom, page, s, call.tool, native)
         IN  IF sel.elem.present
             THEN /\ sel' = s
                  /\ page' = found.page
                  /\ events' = events \o found.events
                  /\ result' = found.result
                  /\ pc' = "evaluated"
             ELSE /\ sel' = [s EXCEPT !.attempt = @ + 1]
                  /\ IF LoopContinues(s.attempt + 1)
                     THEN /\ pc' = "query"
                          /\ UNCHANGED result
                     ELSE /\ pc' = "evaluated"
                          /\ result' = SelReturned(FALSE, "not found", 0, "null")
                  /\ UNCHANGED <<page, events>>
    /\ UNCHANGED <<dom, call, outcome, candidate, resolved>>
    /\ UNCHANGED hostVars

\* The error the selector handlers throw for a result with found false.
SelectorError(res) ==
    IF res.reason = "not found"
    THEN Outcome("NotFound", 0, 0, FALSE)
    ELSE Outcome("NotInteractable", 0, 0, FALSE)

\* The rest of the clickSelector handler.
ClickSelectorFinish ==
    /\ pc = "evaluated"
    /\ call.tool = "clickSelector"
    /\ outcome' =
         IF result.status = "threw" THEN Outcome("ScriptError", 0, 0, FALSE)
         ELSE IF ~result.clicked THEN SelectorError(result)
         ELSE Outcome("ok", 0, 0, TRUE)
    /\ pc' = "done"
    /\ UNCHANGED <<dom, page, call, result, events, candidate, resolved, sel>>
    /\ UNCHANGED hostVars

\* What Playwright's page.$ and element.hover do in the hoverSelector
\* handler: the hover succeeds, it throws, or page.$ finds no element.
NativeHover == {"ok", "throws", "none"}

\* The rest of the hoverSelector handler: the native hover, whose failure
\* is logged and dropped, and the wait.
HoverSelectorFinish ==
    /\ pc = "evaluated"
    /\ call.tool = "hoverSelector"
    /\ \E hover \in NativeHover :
         IF result.status = "returned" /\ result.clicked
         THEN /\ events' =
                   IF hover = "none" THEN events
                   ELSE Append(events,
                               DomEvent("Native", "hover", sel.node, FALSE,
                                        FALSE, TRUE, hover = "throws", page))
              /\ outcome' = Outcome("ok", 0, 0, TRUE)
         ELSE /\ outcome' = SelectorError(result)
              /\ UNCHANGED events
    /\ pc' = "done"
    /\ UNCHANGED <<dom, page, call, result, candidate, resolved, sel>>
    /\ UNCHANGED hostVars

InitSelector ==
    /\ dom \in Docs({KDiv, KAnchor}, {})
    /\ page = [target |-> [n \in Nodes |-> dom.kind[n].target],
               windowOpen |-> "native"]
    /\ call \in [tool : {"clickSelector", "hoverSelector"}, text : {<<>>},
                 occurrence : {1}]
    /\ pc = "start"
    /\ result = NoResult
    /\ outcome = Pending
    /\ events = <<>>
    /\ candidate = 0
    /\ resolved = 0
    /\ \E n \in 3..NumNodes, e \in ElemStates :
         sel = [NoSel EXCEPT !.node = n, !.elem = e]
    /\ HostIdle

NextSelector ==
    \/ SelectorStart
    \/ SelectorQuery
    \/ SelectorWait
    \/ SelectorRequery
    \/ ClickSelectorFinish
    \/ HoverSelectorFinish

SpecSelector == InitSelector /\ [][NextSelector]_vars

\* ------------------------------------------------------------ clickPosition

\* The replacement of window.open installed by the anchor interception, and
\* the browser's own function before it: the number of browsing contexts
\* after the call, the location of the current window, the value returned.
windowOpen(pg, url) ==
    IF pg.windowOpen = "patched"
    THEN [contexts |-> 1,
          location |-> IF url # "" THEN url ELSE "unchanged",
          returns |-> "null"]
    ELSE [contexts |-> 2, location |-> "unchanged", returns |-> "window"]

\* The script clickPosition passes to page.evaluate; element is what
\* document.elementFromPoint(x, y) returns, 0 for null.
ClickPositionScript ==
    /\ pc = "start"
    /\ call.tool = "clickPosition"
    /\ \E element \in 0..NumNodes, native \in NativeClick,
          synthetic \in Dispatch, bare \in Dispatch :
         IF element = 0
         THEN /\ result' = SelReturned(FALSE, "no element", 0, "null")
              /\ UNCHANGED <<page, events, candidate, resolved>>
         ELSE LET pg1 == InterceptAnchor(dom, page, element)
                  first ==
                      IF dom.kind[element].html /\ native # "absent"
                      THEN ClickEvent("Native", element, native = "throws", pg1)
                      ELSE DomEvent("MouseEvent", "click", element, TRUE, TRUE,
                                    FALSE, synthetic = "throws", pg1)
              IN  /\ candidate' = element
                  /\ resolved' = element
                  /\ page' = pg1
                  /\ events' =
                       IF first.threw
                       THEN <<first, ClickEvent("Event", element,
                                               bare = "throws", pg1)>>
                       ELSE <<first>>
                  /\ result' =
                       IF first.threw /\ bare = "throws"
                       THEN Threw
                       ELSE SelReturned(TRUE, "", 0, TagName(dom.kind[element]))
    /\ pc' = "evaluated"
    /\ UNCHANGED <<dom, call, outcome, sel>>
    /\ UNCHANGED hostVars

\* The rest of the clickPosition handler.
ClickPositionFinish ==
    /\ pc = "evaluated"
    /\ call.tool = "clickPosition"
    /\ outcome' =
         IF result.status = "threw" THEN Outcome("ScriptError", 0, 0, FALSE)
         ELSE IF ~result.clicked THEN Outcome("NotFound", 0, 0, FALSE)
         ELSE Outcome("ok", 0, 0, TRUE)
    /\ pc' = "done"
    /\ UNCHANGED <<dom, page, call, result, events, candidate, resolved, sel>>
    /\ UNCHANGED hostVars

\* ------------------------------------------------- the three click tools

ClickTools == {"clickText", "clickPosition", "clickSelector"}

ClickKinds == {KDiv, KAnchor, KSvgRole}

InitClick ==
    /\ dom \in Docs(ClickKinds, {<<"x">>})
    /\ page = [target |-> [n \in Nodes |-> dom.kind[n].target],
               windowOpen |-> "native"]
    /\ call \in [tool : ClickTools, text : {<<"x">>}, occurrence : {1}]
    /\ pc = "start"
    /\ result = NoResult
    /\ outcome = Pending
    /\ events = <<>>
    /\ candidate = 0
    /\ resolved = 0
    /\ \E n \in 3..NumNodes, e \in ElemStates :
         sel = IF call.tool = "clickSelector"
               THEN [NoSel EXCEPT !.node = n, !.elem = e]
               ELSE NoSel
    /\ HostIdle

NextClick ==
    \/ ClickTextScript
    \/ ClickTextFinish
    \/ ClickPositionScript
    \/ ClickPositionFinish
    \/ SelectorStart
    \/ SelectorQuery
    \/ SelectorWait
    \/ SelectorRequery
    \/ ClickSelectorFinish

SpecClick == InitClick /\ [][NextClick]_vars

\* ------------------------------------------------- hoverText, scrollToText

\* The loop of the hoverText and scrollToText scripts over
\* document.querySelectorAll('*'): the elements whose textContent is not
\* empty and includes the text, in document order.
RECURSIVE IncludingElementsFrom(_, _, _)
IncludingElementsFrom(d, text, i) ==
    IF i > Len(allElements(d)) THEN <<>>
    ELSE LET element == allElements(d)[i]
         IN  (IF /\ textContent(d, element) # <<>>
                 /\ Includes(textContent(d, element), text)
              THEN <<element>> ELSE <<>>)
             \o IncludingElementsFrom(d, text, i + 1)

IncludingElements(d, text) == IncludingElementsFrom(d, text, 1)

\* The script hoverText passes to page.evaluate (hovered is result.clicked).
\* The element at which matchCount reaches occurrence receives the three
\* events and totalMatches is matchCount at that point.
HoverTextScript ==
    /\ pc = "start"
    /\ call.tool = "hoverText"
    /\ LET elements == IncludingElements(dom, call.text)
           occurrence == call.occurrence
       IN  IF occurrence \in DOMAIN elements
           THEN LET element == elements[occurrence]
                IN  /\ candidate' = element
                    /\ resolved' = element
                    /\ events' = HoverEvents(element, page)
                    /\ result' = Returned(TRUE, occurrence,
                                          TagName(dom.kind[element]))
           ELSE /\ result' = Returned(FALSE, Len(elements), "null")
                /\ UNCHANGED <<events, candidate, resolved>>
    /\ pc' = "evaluated"
    /\ UNCHANGED <<dom, page, call, outcome, sel>>
    /\ UNCHANGED hostVars

\* The rest of the hoverText handler: the errors, the native hover on the
\* element found by a second search, whose failure is logged and dropped,
\* and the wait.
HoverTextFinish ==
    /\ pc = "evaluated"
    /\ call.tool = "hoverText"
    /\ \E hover \in NativeHover :
         IF result.clicked
         THEN /\ events' =
                   IF hover = "none" THEN events
                   ELSE Append(events,
                               DomEvent("Native", "hover", candidate, FALSE,
                                        FALSE, TRUE, hover = "throws", page))
              /\ outcome' = Outcome("ok", call.occurrence,
                                    result.totalMatches, TRUE)
         ELSE /\ outcome' = NotClickedError(result, call.occurrence)
              /\ UNCHANGED events
    /\ pc' = "done"
    /\ UNCHANGED <<dom, page, call, result, candidate, resolved, sel>>
    /\ UNCHANGED hostVars

\* The script hoverPosition passes to page.evaluate; element is what
\* document.elementFromPoint(x, y) returns, 0 for null.
HoverPositionScript ==
    /\ pc = "start"
    /\ call.tool = "hoverPosition"
    /\ \E element \in 0..NumNodes :
         IF element = 0
         THEN /\ result' = SelReturned(FALSE, "no element", 0, "null")
              /\ UNCHANGED <<events, candidate, resolved>>
         ELSE /\ candidate' = element
              /\ resolved' = element
              /\ events' = <<DomEvent("MouseEvent", "mousemove", element, TRUE,
                                      TRUE, FALSE, FALSE, page),
                             DomEvent("MouseEvent", "mouseover", element, TRUE,
                                      TRUE, FALSE, FALSE, page),
                             DomEvent("MouseEvent", "mouseenter", element, FALSE,
                                      TRUE, FALSE, FALSE, page)>>
              /\ result' = SelReturned(TRUE, "", 0, TagName(dom.kind[element]))
    /\ pc' = "evaluated"
    /\ UNCHANGED <<dom, page, call, outcome, sel>>
    /\ UNCHANGED hostVars

\* What page.mouse.move does in the hoverPosition handler.
MouseMove == {"ok", "throws"}

\* The rest of the hoverPosition handler: page.mouse.move, whose failure
\* is logged and dropped, and the wait.
HoverPositionFinish ==
    /\ pc = "evaluated"
    /\ call.tool = "hoverPosition"
    /\ \E move \in MouseMove :
         IF result.clicked
         THEN /\ events' = Append(events,
                                  DomEvent("Native", "hover", candidate, FALSE,
                                           FALSE, FALSE, move = "throws", page))
              /\ outcome' = Outcome("ok", 0, 0, TRUE)
         ELSE /\ outcome' = Outcome("NotFound", 0, 0, FALSE)
              /\ UNCHANGED events
    /\ pc' = "done"
    /\ UNCHANGED <<dom, page, call, result, candidate, resolved, sel>>
    /\ UNCHANGED hostVars

\* The first script scrollToText passes to page.evaluate (found is
\* result.clicked, matchCount is result.totalMatches): the first element
\* of the loop is scrolled into view.
ScrollToTextScript ==
    /\ pc = "start"
    /\ call.tool = "scrollToText"
    /\ LET elements == IncludingElements(dom, call.text)
       IN  IF Len(elements) > 0
           THEN /\ candidate' = elements[1]
                /\ resolved' = elements[1]
                /\ result' = Returned(TRUE, Len(elements),
                                      TagName(dom.kind[elements[1]]))
           ELSE /\ result' = Returned(FALSE, 0, "null")
                /\ UNCHANGED <<candidate, resolved>>
    /\ pc' = "evaluated"
    /\ UNCHANGED <<dom, page, call, outcome, events, sel>>
    /\ UNCHANGED hostVars

\* The rest of the scrollToText handler.
ScrollToTextFinish ==
    /\ pc = "evaluated"
    /\ call.tool = "scrollToText"
    /\ outcome' = IF result.clicked
                  THEN Outcome("ok", 1, result.totalMatches, TRUE)
                  ELSE Outcome("NotFound", 1, 0, FALSE)
    /\ pc' = "done"
    /\ UNCHANGED <<dom, page, call, result, events, candidate, resolved, sel>>
    /\ UNCHANGED hostVars

\* ---------------------------------------------------- the four text tools

TextTools == {"clickText", "extractHTML", "hoverText", "scrollToText"}

SharedOccurrences == {1, 2, 3}

InitShared ==
    InitText({KDiv, KScript}, {<<"x">>}, {<<"x">>}, TextTools, SharedOccurrences)

NextShared ==
    \/ ClickTextScript
    \/ ClickTextFinish
    \/ ExtractHTMLScript
    \/ ExtractHTMLFinish
    \/ HoverTextScript
    \/ HoverTextFinish
    \/ ScrollToTextScript
    \/ ScrollToTextFinish

SpecShared == InitShared /\ [][NextShared]_vars

\* --------------------------------------------------- the three hover tools

HoverTools == {"hoverText", "hoverPosition", "hoverSelector"}

InitHover ==
    /\ dom \in Docs({KDiv, KSvgRole}, {<<"x">>})
    /\ page = [target |-> [n \in Nodes |-> dom.kind[n].target],
               windowOpen |-> "native"]
    /\ call \in [tool : HoverTools, text : {<<"x">>}, occurrence : {1, 2, 3}]
    /\ pc = "start"
    /\ result = NoResult
    /\ outcome = Pending
    /\ events = <<>>
    /\ candidate = 0
    /\ resolved = 0
    /\ \E n \in 3..NumNodes, e \in ElemStates :
         sel = IF call.tool = "hoverSelector"
               THEN [NoSel EXCEPT !.node = n, !.elem = e]
               ELSE NoSel
    /\ HostIdle

NextHover ==
    \/ HoverTextScript
    \/ HoverTextFinish
    \/ HoverPositionScript
    \/ HoverPositionFinish
    \/ SelectorStart
    \/ SelectorQuery
    \/ SelectorWait
    \/ SelectorRequery
    \/ HoverSelectorFinish

SpecHover == InitHover /\ [][NextHover]_vars

\* ----------------------------------------------------------- BrowserSession

\* The number of concurrent callers of the session.
NumCallers == 2

\* The number of calls of getPage and close made in a run.
MaxCalls == 3

\* The page-side state while the session alone is looked at.
PageIdle ==
    /\ dom = [parent |-> [n \in Nodes |-> IF n = 1 THEN 0 ELSE n - 1],
              kind |-> [n \in Nodes |-> IF n = 1 THEN KHtml ELSE KBody],
              text |-> [n \in Nodes |-> <<>>]]
    /\ page = [target |-> [n \in Nodes |-> FALSE], windowOpen |-> "native"]
    /\ call = [tool |-> "none", text |-> <<>>, occurrence |-> 1]
    /\ pc = "idle"
    /\ result = NoResult
    /\ outcome = Pending
    /\ events = <<>>
    /\ candidate = 0
    /\ resolved = 0
    /\ sel = NoSel

\* browser.close(): the browser and every page of it are closed.
CloseBrowser(w, b) ==
    [w EXCEPT !.browsers[b].open = FALSE,
              !.pages = [g \in DOMAIN w.pages |->
                            IF w.pages[g].browser = b
                            THEN [w.pages[g] EXCEPT !.open = FALSE]
                            ELSE w.pages[g]]]

\* chromium.launch({ headless }): a new browser, numbered in launch order.
Launch(w, headless) ==
    [w EXCEPT !.browsers = Append(@, [headless |-> headless, open |-> TRUE])]

\* browser.newPage(): a new page of browser b.
NewPage(w, b) ==
    [w EXCEPT !.pages = Append(@, [browser |-> b, open |-> TRUE])]

\* Call c of the session did op on browser or page id.
Did(w, c, op, id) ==
    [w EXCEPT !.calls[c].ops = Append(@, [op |-> op, id |-> id])]

\* Call c ended: what it returned (0: nothing) and the session it left.
Ended(w, c, status, returned, after) ==
    [w EXCEPT !.calls[c].status = status, !.calls[c].returned = returned,
              !.calls[c].after = after]

BeginCall(w, p, op, headless, before) ==
    [w EXCEPT !.calls = Append(@, [caller |-> p, op |-> op, headless |-> headless,
                                   before |-> before, ops |-> <<>>,
                                   status |-> "running", returned |-> 0,
                                   after |-> before])]

\* The relaunch test that ignores the requested mode.
NeedsLaunchIgnoringMode(s, useHeadless) == s.browser = 0

\* "!this.browser || this.currentHeadlessMode !== useHeadless"
NeedsLaunch(s, useHeadless) ==
    s.browser = 0 \/ s.currentHeadlessMode # useHeadless

\* getPage(headless) called by p, from its entry to its first await, or to
\* its return when no await is reached.
GetPageEnter(p, headless) ==
    LET useHeadless == IF headless # "undefined" THEN headless
                       ELSE session.currentHeadlessMode
        c == Len(world.calls) + 1
        w == BeginCall(world, p, "getPage", headless, session)
        me == [procs[p] EXCEPT !.call = c, !.useHeadless = useHeadless]
    IN  IF NeedsLaunch(session, useHeadless)
        THEN IF session.browser # 0
             THEN \* await this.browser.close()
                  /\ world' = Did(CloseBrowser(w, session.browser), c,
                                  "close", session.browser)
                  /\ procs' = [procs EXCEPT ![p] = [me EXCEPT !.pc = "closing"]]
             ELSE \* await chromium.launch(...)
                  /\ world' = w
                  /\ procs' = [procs EXCEPT ![p] = [me EXCEPT !.pc = "launching"]]
        ELSE IF session.page = 0
             THEN \* await this.browser.newPage()
                  /\ world' = w
                  /\ procs' = [procs EXCEPT ![p] =
                                  [me EXCEPT !.pc = "newPage",
                                             !.b = session.browser]]
             ELSE \* return this.page
                  /\ world' = Ended(w, c, "returned", session.page, session)
                  /\ procs' = [procs EXCEPT ![p] = me]

\* A call of getPage by a tool handler or another user of the session.
GetPageCall(p) ==
    /\ procs[p].pc = "idle"
    /\ Len(world.calls) < MaxCalls
    /\ \E headless \in {"undefined", "true", "false"} : GetPageEnter(p, headless)
    /\ UNCHANGED <<session, server, nav, shot, js, snap, form, listing>>
    /\ UNCHANGED pageVars

\* getPage resumes after the close: the page reference is cleared and the
\* launch begins.
GetPageClosed(p) ==
    /\ procs[p].pc = "closing"
    /\ session' = [session EXCEPT !.page = 0]
    /\ procs' = [procs EXCEPT ![p].pc = "launching"]
    /\ UNCHANGED <<world, server, nav, shot, js, snap, form, listing>>
    /\ UNCHANGED pageVars

\* getPage resumes after the launch: the new browser and the mode are
\* stored, and newPage is called on the browser.
GetPageLaunched(p) ==
    /\ procs[p].pc = "launching"
    /\ LET b == Len(world.browsers) + 1
       IN  /\ world' = Did(Launch(world, procs[p].useHeadless), procs[p].call,
                           "launch", b)
           /\ session' = [browser |-> b, page |-> 0,
                          currentHeadlessMode |-> procs[p].useHeadless]
           /\ procs' = [procs EXCEPT ![p].pc = "newPage", ![p].b = b]
    /\ UNCHANGED <<server, nav, shot, js, snap, form, listing>>
    /\ UNCHANGED pageVars

\* getPage returning the new page without storing it in this.page.
GetPageNewPageUnstored(p) ==
    /\ procs[p].pc = "newPage"
    /\ LET b == procs[p].b
           g == Len(world.pages) + 1
       IN  world' = IF world.browsers[b].open
                    THEN Ended(Did(NewPage(world, b), procs[p].call,
                                   "newPage", g),
                               procs[p].call, "returned", g, session)
                    ELSE Ended(world, procs[p].call, "threw", 0, session)
    /\ procs' = [procs EXCEPT ![p] = IdleProc]
    /\ UNCHANGED <<session, server, nav, shot, js, snap, form, listing>>
    /\ UNCHANGED pageVars

\* getPage resumes after newPage: the page is stored and returned; newPage
\* rejects when its browser has been closed meanwhile.
GetPageNewPage(p) ==
    /\ procs[p].pc = "newPage"
    /\ LET b == procs[p].b
           g == Len(world.pages) + 1
           s == [session EXCEPT !.page = g]
       IN  IF world.browsers[b].open
           THEN /\ session' = s
                /\ world' = Ended(Did(NewPage(world, b), procs[p].call,
                                      "newPage", g),
                                  procs[p].call, "returned", g, s)
           ELSE /\ world' = Ended(world, procs[p].call, "threw", 0, session)
                /\ UNCHANGED session
    /\ procs' = [procs EXCEPT ![p] = IdleProc]
    /\ UNCHANGED <<server, nav, shot, js, snap, form, listing>>
    /\ UNCHANGED pageVars

\* close from its entry to its await.
CloseCall(p) ==
    /\ procs[p].pc = "idle"
    /\ Len(world.calls) < MaxCalls
    /\ LET c == Len(world.calls) + 1
           w == BeginCall(world, p, "close", "undefined", session)
       IN  /\ world' = IF session.browser # 0
                       THEN Did(CloseBrowser(w, session.browser), c, "close",
                                session.browser)
                       ELSE w
           /\ procs' = [procs EXCEPT ![p].pc = "closingSession", ![p].call = c]
    /\ session' = [session EXCEPT !.page = 0]
    /\ UNCHANGED <<server, nav, shot, js, snap, form, listing>>
    /\ UNCHANGED pageVars

\* close resumes: the browser reference is cleared.
CloseDone(p) ==
    /\ procs[p].pc = "closingSession"
    /\ LET s == [session EXCEPT !.browser = 0]
       IN  /\ session' = s
           /\ world' = Ended(world, procs[p].call, "returned", 0, s)
    /\ procs' = [procs EXCEPT ![p] = IdleProc]
    /\ UNCHANGED <<server, nav, shot, js, snap, form, listing>>
    /\ UNCHANGED pageVars

InitSession ==
    /\ PageIdle
    /\ session = NewSession
    /\ world = NoWorld
    /\ procs = [p \in 1..NumCallers |-> IdleProc]
    /\ server = NoServer
    /\ nav = NoNav
    /\ shot = NoShot
    /\ ToolsIdle

NextSession ==
    \/ \E p \in DOMAIN procs : GetPageCall(p)
    \/ \E p \in DOMAIN procs : GetPageClosed(p)
    \/ \E p \in DOMAIN procs : GetPageLaunched(p)
    \/ \E p \in DOMAIN procs : GetPageNewPage(p)
    \/ \E p \in DOMAIN procs : CloseCall(p)
    \/ \E p \in DOMAIN procs : CloseDone(p)

SpecSession == InitSession /\ [][NextSession]_vars

\* One caller: every call runs to its end before the next begins.
InitSessionSeq ==
    /\ PageIdle
    /\ session = NewSession
    /\ world = NoWorld
    /\ procs = [p \in {1} |-> IdleProc]
    /\ server = NoServer
    /\ nav = NoNav
    /\ shot = NoShot
    /\ ToolsIdle

SpecSessionSeq == InitSessionSeq /\ [][NextSession]_vars

\* ------------------------------------------------------------- screenshot

\* BrowserSession.hasPage
hasPage(s) == s.page # 0

\* No screenshot call is in progress.
SnapIdle == snap.pc \in {"none", "returned", "threw"}

\* The screenshot handler from its entry into session.getPage().
ScreenshotCall(p) ==
    /\ SnapIdle
    /\ procs[p].pc = "idle"
    /\ Len(world.calls) < MaxCalls
    /\ GetPageEnter(p, "undefined")
    /\ snap' = [NoSnap EXCEPT !.pc = "awaitGetPage",
                              !.call = Len(world.calls) + 1]
    /\ UNCHANGED <<session, server, nav, shot, js, form, listing>>
    /\ UNCHANGED pageVars

\* The handler resumes when getPage has ended: a rejection is thrown on,
\* hasPage() is tested, and the page is asked for its title.
ScreenshotGotPage ==
    /\ snap.pc = "awaitGetPage"
    /\ world.calls[snap.call].status # "running"
    /\ snap' = IF world.calls[snap.call].status = "threw"
               THEN [snap EXCEPT !.pc = "threw", !.error = "getPage failed"]
               ELSE IF ~hasPage(session)
               THEN [snap EXCEPT !.pc = "threw", !.error = "No page loaded"]
               ELSE [snap EXCEPT !.pc = "capturing",
                                 !.page = world.calls[snap.call].returned]
    /\ UNCHANGED <<session, world, procs, server, nav, shot, js, form, listing>>
    /\ UNCHANGED pageVars

\* page.title(), page.evaluate and page.screenshot settle: the image and
\* the metadata are returned, or the rejection is thrown on.
ScreenshotCaptured ==
    /\ snap.pc = "capturing"
    /\ \E settled \in {"ok", "fails"} :
         snap' = IF settled = "ok" /\ world.pages[snap.page].open
                 THEN [snap EXCEPT !.pc = "returned"]
                 ELSE [snap EXCEPT !.pc = "threw", !.error = "page failed"]
    /\ UNCHANGED <<session, world, procs, server, nav, shot, js, form, listing>>
    /\ UNCHANGED pageVars

\* Another tool calls getPage, or the session is closed, while no
\* screenshot call is in progress.
OtherGetPageCall(p) == SnapIdle /\ GetPageCall(p)

OtherCloseCall(p) == SnapIdle /\ CloseCall(p)

NextSnap ==
    \/ \E p \in DOMAIN procs : ScreenshotCall(p)
    \/ \E p \in DOMAIN procs : GetPageClosed(p)
    \/ \E p \in DOMAIN procs : GetPageLaunched(p)
    \/ \E p \in DOMAIN procs : GetPageNewPage(p)
    \/ ScreenshotGotPage
    \/ ScreenshotCaptured
    \/ \E p \in DOMAIN procs : OtherGetPageCall(p)
    \/ \E p \in DOMAIN procs : OtherCloseCall(p)
    \/ \E p \in DOMAIN procs : CloseDone(p)

\* One caller of the session: tool calls run one after another.
SpecSnap == InitSessionSeq /\ [][NextSnap]_vars

\* ------------------------------------------------------ request dispatcher

\* The registered tools, by name, in the order of the tools array.
tools ==
    <<"navigate", "goBack", "screenshot", "scrollToPosition", "scrollDirection",
      "scrollToText", "clickText", "clickPosition", "clickSelector",
      "hoverText", "hoverPosition", "hoverSelector", "getElements",
      "extractHTML", "fillText", "fillSelector", "fillForm">>

\* The names tool calls ask for: registered ones and others.
RequestNames == {"navigate", "clickText", "fillForm", "executeJavaScript", ""}

\* What a handler returns and what it throws.
HandlerResults == {"content A", "content B"}
HandlerErrors == {"error A", "error B"}

\* The number of tool calls received in a run.
MaxRequests == 2

\* A lookup that falls back to the first tool.
FindOrFirst(name) ==
    IF \E i \in DOMAIN tools : tools[i] = name
    THEN CHOOSE i \in DOMAIN tools :
             tools[i] = name /\ \A j \in 1..(i - 1) : tools[j] # name
    ELSE 1

\* tools.find(t => t.name === name): the index of the first tool of that
\* name, 0 for undefined.
Find(name) ==
    IF \E i \in DOMAIN tools : tools[i] = name
    THEN CHOOSE i \in DOMAIN tools :
             tools[i] = name /\ \A j \in 1..(i - 1) : tools[j] # name
    ELSE 0

\* What the request handler gives the protocol layer: the handler's result
\* returned, or the error thrown.
Response(kind, value) == [kind |-> kind, value |-> value]

\* A tools/call request arrives and the request handler runs to its await:
\* it throws for an unknown name, else it invokes the tool's handler with
\* the browser session.
ReceiveCall ==
    /\ Len(server.calls) < MaxRequests
    /\ \E name \in RequestNames :
         LET tool == Find(name)
             c == Len(server.calls) + 1
         IN  IF tool = 0
             THEN server' =
                    [server EXCEPT
                       !.calls = Append(@, [name |-> name, pc |-> "threw",
                                            tool |-> 0, session |-> FALSE,
                                            handler |-> [kind |-> "none",
                                                         value |-> ""],
                                            response |->
                                                Response("error", "Unknown tool")])]
             ELSE server' =
                    [calls |-> Append(server.calls,
                                      [name |-> name, pc |-> "running",
                                       tool |-> tool, session |-> TRUE,
                                       handler |-> [kind |-> "none", value |-> ""],
                                       response |-> Response("none", "")]),
                     invoked |-> Append(server.invoked,
                                        [call |-> c, tool |-> tool])]
    /\ UNCHANGED <<session, world, procs, nav, shot, js, snap, form, listing>>
    /\ UNCHANGED pageVars

\* The handler of call c resolves: its result is returned.
HandlerReturns(c) ==
    /\ server.calls[c].pc = "running"
    /\ \E r \in HandlerResults :
         server' = [server EXCEPT !.calls[c].pc = "returned",
                                  !.calls[c].handler = [kind |-> "result", value |-> r],
                                  !.calls[c].response = Response("result", r)]
    /\ UNCHANGED <<session, world, procs, nav, shot, js, snap, form, listing>>
    /\ UNCHANGED pageVars

\* The handler of call c rejects: the error is logged and thrown again.
HandlerThrows(c) ==
    /\ server.calls[c].pc = "running"
    /\ \E e \in HandlerErrors :
         server' = [server EXCEPT !.calls[c].pc = "threw",
                                  !.calls[c].handler = [kind |-> "error", value |-> e],
                                  !.calls[c].response = Response("error", e)]
    /\ UNCHANGED <<session, world, procs, nav, shot, js, snap, form, listing>>
    /\ UNCHANGED pageVars

InitDispatch ==
    /\ PageIdle
    /\ HostIdle

NextDispatch ==
    \/ ReceiveCall
    \/ \E c \in DOMAIN server.calls : HandlerReturns(c)
    \/ \E c \in DOMAIN server.calls : HandlerThrows(c)

SpecDispatch == InitDispatch /\ [][NextDispatch]_vars

\* ------------------------------------------------------------------ navigate

\* The default of args.timeout, the cap of the selector wait and the
\* stabilization wait, in milliseconds.
DefaultNavigationTimeout == 30000
MaxSelectorTimeout == 10000
StabilizationWait == 2000

\* args.timeout left out.
NoTimeout == -1

NavigateTimeouts == {NoTimeout, 1000, 30000, 120000}

\* args.waitForSelector: left out or empty (both falsy), or a selector.
NavigateSelectors == {"", "#main"}

\* How an awaited page operation settles.
Settles == {"ok", "timeout", "fails"}

\* "args.timeout ?? 30000"
NavigationTimeout(n) ==
    IF n.timeout = NoTimeout THEN DefaultNavigationTimeout ELSE n.timeout

Min(a, b) == IF a < b THEN a ELSE b

\* "Math.min(timeout / 2, 10000)"
SelectorTimeout(n) == Min(NavigationTimeout(n) \div 2, MaxSelectorTimeout)

\* "args.waitUntil ?? 'domcontentloaded'"
WaitUntil(n) ==
    IF n.waitUntil = "undefined" THEN "domcontentloaded" ELSE n.waitUntil

\* A page operation the handler awaited: its name, its timeout (its
\* waitUntil option for goto) and how it settled.
Step(n, step, timeout, settled) ==
    [n EXCEPT !.steps = Append(@, [step |-> step, timeout |-> timeout,
                                   waitUntil |-> IF step = "goto" THEN WaitUntil(n)
                                                 ELSE "",
                                   outcome |-> settled])]

\* A selector wait whose failure is thrown.
AfterSelectorWaitStrict(n, settled) ==
    IF settled = "ok" THEN [n EXCEPT !.pc = "awaitStabilize"]
    ELSE [n EXCEPT !.pc = "threw", !.error = "waitForSelector " \o settled]

\* The try/catch around page.waitForSelector: whatever the settled, the
\* handler goes on to the stabilization wait.
AfterSelectorWait(n, settled) == [n EXCEPT !.pc = "awaitStabilize"]

\* The handler is entered and awaits session.getPage().
NavigateCall ==
    /\ nav.pc = "start"
    /\ nav' = [nav EXCEPT !.pc = "awaitGetPage"]
    /\ UNCHANGED <<session, world, procs, server, shot, js, snap, form, listing>>
    /\ UNCHANGED pageVars

\* getPage settles: page.goto is called, or the error is thrown.
NavigateGotPage ==
    /\ nav.pc = "awaitGetPage"
    /\ \E settled \in {"ok", "fails"} :
         LET n == Step(nav, "getPage", 0, settled)
         IN  nav' = IF settled = "ok" THEN [n EXCEPT !.pc = "awaitGoto"]
                    ELSE [n EXCEPT !.pc = "threw", !.error = "getPage " \o settled]
    /\ UNCHANGED <<session, world, procs, server, shot, js, snap, form, listing>>
    /\ UNCHANGED pageVars

\* page.goto settles: the selector wait or the stabilization wait begins,
\* or the error is thrown.
NavigateLoaded ==
    /\ nav.pc = "awaitGoto"
    /\ \E settled \in Settles :
         LET n == Step(nav, "goto", NavigationTimeout(nav), settled)
         IN  nav' = IF settled # "ok"
                    THEN [n EXCEPT !.pc = "threw", !.error = "goto " \o settled]
                    ELSE IF nav.waitForSelector # ""
                    THEN [n EXCEPT !.pc = "awaitSelector"]
                    ELSE [n EXCEPT !.pc = "awaitStabilize"]
    /\ UNCHANGED <<session, world, procs, server, shot, js, snap, form, listing>>
    /\ UNCHANGED pageVars

\* page.waitForSelector settles.
NavigateSelectorWaited ==
    /\ nav.pc = "awaitSelector"
    /\ \E settled \in Settles :
         nav' = AfterSelectorWait(
                    Step(nav, "waitForSelector", SelectorTimeout(nav), settled),
                    settled)
    /\ UNCHANGED <<session, world, procs, server, shot, js, snap, form, listing>>
    /\ UNCHANGED pageVars

\* page.waitForTimeout(2000) settles.
NavigateStabilized ==
    /\ nav.pc = "awaitStabilize"
    /\ \E settled \in {"ok", "fails"} :
         LET n == Step(nav, "waitForTimeout", StabilizationWait, settled)
         IN  nav' = IF settled = "ok" THEN [n EXCEPT !.pc = "awaitTitle"]
                    ELSE [n EXCEPT !.pc = "threw",
                                   !.error = "waitForTimeout " \o settled]
    /\ UNCHANGED <<session, world, procs, server, shot, js, snap, form, listing>>
    /\ UNCHANGED pageVars

\* page.title() settles and the handler returns its text.
NavigateReturn ==
    /\ nav.pc = "awaitTitle"
    /\ \E settled \in {"ok", "fails"} :
         LET n == Step(nav, "title", 0, settled)
         IN  nav' = IF settled = "ok"
                    THEN [n EXCEPT !.pc = "returned", !.result = "Navigated to"]
                    ELSE [n EXCEPT !.pc = "threw", !.error = "title " \o settled]
    /\ UNCHANGED <<session, world, procs, server, shot, js, snap, form, listing>>
    /\ UNCHANGED pageVars

InitNavigate ==
    /\ PageIdle
    /\ session = NewSession
    /\ world = NoWorld
    /\ procs = <<>>
    /\ server = NoServer
    /\ shot = NoShot
    /\ ToolsIdle
    /\ \E timeout \in NavigateTimeouts, selector \in NavigateSelectors,
          waitUntil \in {"undefined", "load", "networkidle"} :
         nav = [NoNav EXCEPT !.pc = "start", !.timeout = timeout,
                             !.waitForSelector = selector,
                             !.waitUntil = waitUntil]

NextNavigate ==
    \/ NavigateCall
    \/ NavigateGotPage
    \/ NavigateLoaded
    \/ NavigateSelectorWaited
    \/ NavigateStabilized
    \/ NavigateReturn

SpecNavigate == InitNavigate /\ [][NextNavigate]_vars

\* ------------------------------------------- provider limits, screenshots

UpperCase == "ABCDEFGHIJKLMNOPQRSTUVWXYZ"
LowerCase == "abcdefghijklmnopqrstuvwxyz"

\* The lower-case form of a one-character string.
LowerChar(c) ==
    IF \E i \in 1..Len(UpperCase) : SubSeq(UpperCase, i, i) = c
    THEN LET i == CHOOSE j \in 1..Len(UpperCase) : SubSeq(UpperCase, j, j) = c
         IN  SubSeq(LowerCase, i, i)
    ELSE c

\* String.prototype.toLowerCase
RECURSIVE StringToLowerCase(_)
StringToLowerCase(str) ==
    IF Len(str) = 0 THEN ""
    ELSE LowerChar(SubSeq(str, 1, 1)) \o StringToLowerCase(SubSeq(str, 2, Len(str)))

\* String.prototype.trim
RECURSIVE StringTrim(_)
StringTrim(str) ==
    IF Len(str) = 0 THEN ""
    ELSE IF SubSeq(str, 1, 1) = " " THEN StringTrim(SubSeq(str, 2, Len(str)))
    ELSE IF SubSeq(str, Len(str), Len(str)) = " "
    THEN StringTrim(SubSeq(str, 1, Len(str) - 1))
    ELSE str

ProviderConfig(name, maxImageDimension) ==
    [name |-> name, maxImageDimension |-> maxImageDimension, own |-> TRUE]

PROVIDER_CONFIGS ==
    [key \in {"claude", "anthropic", "gemini", "google", "openai", "gpt4",
              "default"} |->
        CASE key = "claude"    -> ProviderConfig("Claude", 8000)
          [] key = "anthropic" -> ProviderConfig("Anthropic", 8000)
          [] key = "gemini"    -> ProviderConfig("Gemini", 3072)
          [] key = "google"    -> ProviderConfig("Google", 3072)
          [] key = "openai"    -> ProviderConfig("OpenAI", 2048)
          [] key = "gpt4"      -> ProviderConfig("GPT-4", 2048)
          [] key = "default"   -> ProviderConfig("Default", 2000)]

\* The properties every object literal inherits from Object.prototype.
ObjectPrototypeKeys ==
    {"constructor", "__proto__", "hasOwnProperty", "isPrototypeOf",
     "propertyIsEnumerable", "toLocaleString", "toString", "valueOf"}

\* PROVIDER_CONFIGS[key]: the entry of an own key; for an inherited key the
\* inherited value, an object that is truthy and has no maxImageDimension;
\* undefined (found FALSE) otherwise.
LookUp(key) ==
    IF key \in DOMAIN PROVIDER_CONFIGS
    THEN [found |-> TRUE, value |-> PROVIDER_CONFIGS[key]]
    ELSE IF key \in ObjectPrototypeKeys
    THEN [found |-> TRUE,
          value |-> [name |-> IF key = "constructor" THEN "Object"
                              ELSE IF key = "__proto__" THEN "undefined"
                              ELSE key,
                     maxImageDimension |-> UndefinedNumber, own |-> FALSE]]
    ELSE [found |-> FALSE, value |-> PROVIDER_CONFIGS["default"]]

\* "Fuzzy matching for common variations"
FuzzyMatch(normalizedProvider) ==
    IF \/ Includes(normalizedProvider, "claude")
       \/ Includes(normalizedProvider, "anthropic")
    THEN PROVIDER_CONFIGS["claude"]
    ELSE IF \/ Includes(normalizedProvider, "gemini")
            \/ Includes(normalizedProvider, "google")
    THEN PROVIDER_CONFIGS["gemini"]
    ELSE IF Includes(normalizedProvider, "openai") \/ Includes(normalizedProvider, "gpt")
    THEN PROVIDER_CONFIGS["openai"]
    ELSE PROVIDER_CONFIGS["default"]

\* getProviderConfig(provider); provider.given is FALSE for undefined.
getProviderConfig(provider) ==
    IF ~provider.given \/ provider.value = ""
    THEN PROVIDER_CONFIGS["default"]
    ELSE LET normalizedProvider == StringTrim(StringToLowerCase(provider.value))
         IN  IF LookUp(normalizedProvider).found
             THEN LookUp(normalizedProvider).value
             ELSE FuzzyMatch(normalizedProvider)

\* "a > b" of JavaScript numbers: false when b is undefined.
GreaterThan(a, b) == b # UndefinedNumber /\ a > b

\* The test that lets an image at the limit be resized.
ExceedsLimitInclusive(width, height, MAX_DIMENSION) ==
    /\ width # 0
    /\ height # 0
    /\ MAX_DIMENSION # UndefinedNumber
    /\ (width >= MAX_DIMENSION \/ height >= MAX_DIMENSION)

\* "metadata.width && metadata.height && (metadata.width > MAX_DIMENSION ||
\* metadata.height > MAX_DIMENSION)"
ExceedsLimit(width, height, MAX_DIMENSION) ==
    /\ width # 0
    /\ height # 0
    /\ (GreaterThan(width, MAX_DIMENSION) \/ GreaterThan(height, MAX_DIMENSION))

\* Math.round(a / b) computed in double precision: the integer nearest to
\* the quotient; when the quotient lies exactly between two integers the
\* rounding error of the division decides which of them results.
MathRound(a, b) ==
    {r \in {a \div b, a \div b + 1} : 2 * (a - r * b) <= b /\ 2 * (r * b - a) <= b}

\* The sizes with the branches of the orientation test exchanged.
NewSizesSwapped(width, height, MAX_DIMENSION) ==
    IF width < height
    THEN {[newWidth |-> MAX_DIMENSION, newHeight |-> r] :
              r \in MathRound(MAX_DIMENSION * height, width)}
    ELSE {[newWidth |-> r, newHeight |-> MAX_DIMENSION] :
              r \in MathRound(MAX_DIMENSION * width, height)}

\* newWidth and newHeight as the resize branch computes them.
NewSizes(width, height, MAX_DIMENSION) ==
    IF width > height
    THEN {[newWidth |-> MAX_DIMENSION, newHeight |-> r] :
              r \in MathRound(MAX_DIMENSION * height, width)}
    ELSE {[newWidth |-> r, newHeight |-> MAX_DIMENSION] :
              r \in MathRound(MAX_DIMENSION * width, height)}

\* processScreenshot from its entry to "await sharp(screenshot).metadata()".
ProcessScreenshotCall ==
    /\ shot.pc = "start"
    /\ shot' = [shot EXCEPT !.pc = "awaitMetadata",
                            !.providerConfig = getProviderConfig(shot.provider)]
    /\ UNCHANGED <<session, world, procs, server, nav, js, snap, form,
                 listing>>
    /\ UNCHANGED pageVars

\* The metadata arrive: the image is returned as it is, or the new size is
\* computed and the resize requested.
ProcessScreenshotMeasured ==
    /\ shot.pc = "awaitMetadata"
    /\ LET MAX_DIMENSION == shot.providerConfig.maxImageDimension
       IN  IF ExceedsLimit(shot.width, shot.height, MAX_DIMENSION)
           THEN \E size \in NewSizes(shot.width, shot.height, MAX_DIMENSION) :
                    shot' = [shot EXCEPT !.pc = "awaitResize",
                                         !.newWidth = size.newWidth,
                                         !.newHeight = size.newHeight]
           ELSE shot' = [shot EXCEPT !.pc = "returned"]
    /\ UNCHANGED <<session, world, procs, server, nav, js, snap, form,
                 listing>>
    /\ UNCHANGED pageVars

\* sharp(...).resize(newWidth, newHeight, { fit: 'inside',
\* withoutEnlargement: true }).png().toBuffer() settles: sharp rejects a
\* size that is not a positive integer. The width and height recorded for
\* the processed image are those of the requested box.
ProcessScreenshotResized ==
    /\ shot.pc = "awaitResize"
    /\ shot' = IF shot.newWidth >= 1 /\ shot.newHeight >= 1
               THEN [shot EXCEPT !.pc = "returned",
                                 !.wasResized = TRUE,
                                 !.processedImage =
                                     [width |-> shot.newWidth,
                                      height |-> shot.newHeight,
                                      buffer |-> "resized"]]
               ELSE [shot EXCEPT !.pc = "threw"]
    /\ UNCHANGED <<session, world, procs, server, nav, js, snap, form,
                 listing>>
    /\ UNCHANGED pageVars

\* The provider arguments: left out, empty, names in several spellings,
\* names of several vendors, unknown names.
Providers ==
    {[given |-> FALSE, value |-> ""]} \cup
    {[given |-> TRUE, value |-> v] :
        v \in {"", " ", "claude", "Claude", " CLAUDE ", "anthropic", "claude-3",
               "gemini", "google", "Google Gemini", "openai", "gpt4", "gpt-4o",
               "GPT", "default", "llama", "openai claude", "gpt gemini",
               "google anthropic", "constructor", "toString", "__proto__"}}

\* Widths and heights of screenshots, in pixels.
ImageSizes ==
    {1, 195, 600, 800, 2000, 2001, 2048, 3072, 3073, 4000, 5000, 8000, 8001, 10000}

InitScreenshot ==
    /\ PageIdle
    /\ session = NewSession
    /\ world = NoWorld
    /\ procs = <<>>
    /\ server = NoServer
    /\ nav = NoNav
    /\ ToolsIdle
    /\ \E provider \in Providers, width \in ImageSizes, height \in ImageSizes :
         shot = [NoShot EXCEPT !.pc = "start", !.provider = provider,
                               !.width = width, !.height = height,
                               !.processedImage = [width |-> width,
                                                   height |-> height,
                                                   buffer |-> "screenshot"]]

NextScreenshot ==
    \/ ProcessScreenshotCall
    \/ ProcessScreenshotMeasured
    \/ ProcessScreenshotResized

SpecScreenshot == InitScreenshot /\ [][NextScreenshot]_vars

\* --------------------------------------------------------- executeJavaScript

\* What a function body does when it is compiled by new Function and
\* called: the body does not parse (SyntaxError), or it runs, adds effects
\* to the page's counter n, and returns a value or throws.
FunctionBody(parses, effects, throws, value) ==
    [parses |-> parses, effects |-> effects, throws |-> throws, value |-> value]

SyntaxError == FunctionBody(FALSE, 0, TRUE, "undefined")

\* Code strings with what 'return ' + code and code itself do as function
\* bodies; f is not defined in the page.
Programs ==
    [code \in {"1 + 1", "n++", "(n++, f())", "let x = 1", "n++; f()",
               "throw 0", "var x = n++; f()", "if (", "({a: n})", "f()"} |->
       CASE code = "1 + 1" ->
              [asReturn |-> FunctionBody(TRUE, 0, FALSE, "number"),
               asBody |-> FunctionBody(TRUE, 0, FALSE, "undefined")]
         [] code = "n++" ->
              [asReturn |-> FunctionBody(TRUE, 1, FALSE, "number"),
               asBody |-> FunctionBody(TRUE, 1, FALSE, "undefined")]
         [] code = "(n++, f())" ->
              [asReturn |-> FunctionBody(TRUE, 1, TRUE, "undefined"),
               asBody |-> FunctionBody(TRUE, 1, TRUE, "undefined")]
         [] code = "let x = 1" ->
              [asReturn |-> SyntaxError,
               asBody |-> FunctionBody(TRUE, 0, FALSE, "undefined")]
         [] code = "n++; f()" ->
              \* "return n++; f()" returns before f() is reached
              [asReturn |-> FunctionBody(TRUE, 1, FALSE, "number"),
               asBody |-> FunctionBody(TRUE, 1, TRUE, "undefined")]
         [] code = "throw 0" ->
              [asReturn |-> SyntaxError,
               asBody |-> FunctionBody(TRUE, 0, TRUE, "undefined")]
         [] code = "var x = n++; f()" ->
              [asReturn |-> SyntaxError,
               asBody |-> FunctionBody(TRUE, 1, TRUE, "undefined")]
         [] code = "if (" ->
              [asReturn |-> SyntaxError, asBody |-> SyntaxError]
         [] code = "({a: n})" ->
              [asReturn |-> FunctionBody(TRUE, 0, FALSE, "object"),
               asBody |-> FunctionBody(TRUE, 0, FALSE, "undefined")]
         [] OTHER ->
              [asReturn |-> FunctionBody(TRUE, 0, TRUE, "undefined"),
               asBody |-> FunctionBody(TRUE, 0, TRUE, "undefined")]]

\* Values of the page's counter before the call.
MaxCounter == 3

\* executeJavaScript from its entry to "await session.getPage()".
ExecuteJavaScriptCall ==
    /\ js.pc = "start"
    /\ js' = [js EXCEPT !.pc = "awaitGetPage"]
    /\ UNCHANGED <<session, world, procs, server, nav, shot, snap, form, listing>>
    /\ UNCHANGED pageVars

\* getPage returned: the script is sent to the page and runs there.  It
\* calls the code as a returned expression; when that throws, in
\* compiling or in running, it calls the code as a function body.
ExecuteJavaScriptScript ==
    /\ js.pc = "awaitGetPage"
    /\ LET program == Programs[js.code]
           first == program.asReturn
           second == program.asBody
       IN  js' = IF ~first.throws
                 THEN [js EXCEPT !.pc = "evaluated",
                                 !.effects = @ + first.effects,
                                 !.runs = <<first>>,
                                 !.result = [success |-> TRUE,
                                             value |-> first.value]]
                 ELSE [js EXCEPT !.pc = "evaluated",
                                 !.effects = @ + first.effects + second.effects,
                                 !.runs = <<first, second>>,
                                 !.result = [success |-> ~second.throws,
                                             value |-> second.value]]
    /\ UNCHANGED <<session, world, procs, server, nav, shot, snap, form, listing>>
    /\ UNCHANGED pageVars

\* The rest of the handler: the error for success false, the result text.
ExecuteJavaScriptFinish ==
    /\ js.pc = "evaluated"
    /\ js' = [js EXCEPT !.pc = IF js.result.success THEN "returned" ELSE "threw"]
    /\ UNCHANGED <<session, world, procs, server, nav, shot, snap, form, listing>>
    /\ UNCHANGED pageVars

InitExecute ==
    /\ PageIdle
    /\ session = NewSession
    /\ world = NoWorld
    /\ procs = <<>>
    /\ server = NoServer
    /\ nav = NoNav
    /\ shot = NoShot
    /\ snap = NoSnap
    /\ form = NoForm
    /\ listing = NoListing
    /\ \E code \in DOMAIN Programs, n \in 0..MaxCounter :
         js = [NoJs EXCEPT !.pc = "start", !.code = code, !.effects = n,
                           !.before = n]

NextExecute ==
    \/ ExecuteJavaScriptCall
    \/ ExecuteJavaScriptScript
    \/ ExecuteJavaScriptFinish

SpecExecute == InitExecute /\ [][NextExecute]_vars

\* ------------------------------------------------------------------ fillForm

\* The page's form: a text input, a select, a file input and a checkbox,
\* in document order, with the attributes the script reads.
FormInputs ==
    <<[tag |-> "input", type |-> "", id |-> "text",
       placeholder |-> "Your Name", ariaLabel |-> "", name |-> "name",
       options |-> <<>>],
      [tag |-> "select", type |-> "", id |-> "select",
       placeholder |-> "", ariaLabel |-> "Plan", name |-> "plan",
       options |-> <<[value |-> "a", text |-> "Alpha"],
                     [value |-> "b", text |-> "Beta"]>>],
      [tag |-> "input", type |-> "file", id |-> "file",
       placeholder |-> "", ariaLabel |-> "", name |-> "upload",
       options |-> <<>>],
      [tag |-> "input", type |-> "checkbox", id |-> "check",
       placeholder |-> "", ariaLabel |-> "", name |-> "",
       options |-> <<>>]>>

\* The page's labels in document order: textContent, the for attribute and
\* the input inside the label (0: none).
FormLabels ==
    <<[text |-> " Ghost ", for |-> "missing", inner |-> 0],
      [text |-> " Name ", for |-> "text", inner |-> 0],
      [text |-> "Agree", for |-> "", inner |-> 4]>>

\* The inputs' state before the call.
InitialValues ==
    <<[value |-> "", checked |-> FALSE, events |-> <<>>],
      [value |-> "b", checked |-> FALSE, events |-> <<>>],
      [value |-> "", checked |-> FALSE, events |-> <<>>],
      [value |-> "", checked |-> TRUE, events |-> <<>>]>>

\* document.getElementById on the form (0: null).
getElementById(id) ==
    IF \E i \in DOMAIN FormInputs : FormInputs[i].id = id
    THEN CHOOSE i \in DOMAIN FormInputs :
           /\ FormInputs[i].id = id
           /\ \A j \in 1..(i - 1) : FormInputs[j].id # id
    ELSE 0

\* Selectors that are not valid CSS: querySelector throws a SyntaxError.
InvalidSelectors == {"##", "input["}

\* document.querySelector on the form: the first match in document order
\* (0: null, -1: the selector is not valid and the call throws).
querySelector(selector) ==
    CASE selector \in InvalidSelectors -> -1
      [] selector = "input"  -> 1
      [] selector = "select" -> 2
      [] selector = "[type=file]" -> 3
      [] selector = "#text" \/ selector = "#select" \/ selector = "#file"
           \/ selector = "#check"
           -> getElementById(SubSeq(selector, 2, Len(selector)))
      [] OTHER -> 0

\* The input a label leads to: the element with the id of its for
\* attribute, else the input inside the label (0: neither).
LabelInput(label) ==
    IF label.for # "" /\ getElementById(label.for) # 0
    THEN getElementById(label.for)
    ELSE label.inner

\* The labels that contain the text, case-insensitively, and lead to an
\* input.
MatchingLabels(text) ==
    {k \in DOMAIN FormLabels :
       /\ Includes(StringToLowerCase(StringTrim(FormLabels[k].text)), StringToLowerCase(text))
       /\ LabelInput(FormLabels[k]) # 0}

\* The inputs whose placeholder, aria-label or name contains the text.
MatchingInputs(text) ==
    {i \in DOMAIN FormInputs :
       \E a \in {FormInputs[i].placeholder, FormInputs[i].ariaLabel,
                 FormInputs[i].name} :
          a # "" /\ Includes(StringToLowerCase(a), StringToLowerCase(text))}

\* First element of a non-empty set of positions.
First(S) == CHOOSE i \in S : \A j \in S : i <= j

findInputByLabel(text) ==
    IF MatchingLabels(text) # {}
    THEN LabelInput(FormLabels[First(MatchingLabels(text))])
    ELSE IF MatchingInputs(text) # {}
         THEN First(MatchingInputs(text))
         ELSE 0

\* An entry of filledFields.
Filled(field, input) ==
    [selector |-> field.selector, filled |-> TRUE, reason |-> "",
     element |-> "<" \o FormInputs[input].tag \o " type=\""
                  \o (IF FormInputs[input].type = "" THEN "text"
                      ELSE FormInputs[input].type)
                  \o "\" id=\"" \o FormInputs[input].id \o "\">"]

NotFilled(field, reason) ==
    [selector |-> field.selector, filled |-> FALSE, reason |-> reason,
     element |-> ""]

\* The options of a select whose value or text is the field's value.
MatchingOptions(input, value) ==
    {o \in DOMAIN FormInputs[input].options :
       \/ FormInputs[input].options[o].value = value
       \/ FormInputs[input].options[o].text = value}

\* The body of the script's loop for a field whose input was found: the
\* inputs' state after it and the entry it pushes.  Assigning a non-empty
\* value to a file input throws, after focus and before any event.
FillInput(field, input, values) ==
    LET tagName == FormInputs[input].tag
        type == IF FormInputs[input].type = "" THEN "text"
                ELSE FormInputs[input].type
    IN  CASE tagName = "select" ->
               IF MatchingOptions(input, field.value) # {}
               THEN [values |->
                       [values EXCEPT
                          ![input].value =
                             FormInputs[input].options[
                                First(MatchingOptions(input, field.value))].value,
                          ![input].events = Append(@, "change")],
                     entry |-> Filled(field, input)]
               ELSE [values |-> values,
                     entry |-> NotFilled(field, "Option \"" \o field.value \o "\" not found in select")]
          [] tagName # "select" /\ type \in {"checkbox", "radio"} ->
               [values |->
                  [values EXCEPT
                     ![input].checked =
                        IF StringToLowerCase(field.value) = "true" \/ field.value = "1"
                        THEN TRUE
                        ELSE IF StringToLowerCase(field.value) = "false"
                                  \/ field.value = "0"
                             THEN FALSE
                             ELSE @,
                     ![input].events = Append(@, "change")],
                entry |-> Filled(field, input)]
          [] OTHER ->
               IF type = "file" /\ field.value # ""
               THEN [values |-> [values EXCEPT ![input].events = Append(@, "focus")],
                     entry |-> NotFilled(field, "Error filling field: InvalidStateError")]
               ELSE [values |->
                       [values EXCEPT
                          ![input].value = field.value,
                          ![input].events =
                             @ \o <<"focus", "input", "change", "blur">>],
                     entry |-> Filled(field, input)]

\* The script's loop from field i on: the inputs' state and filledFields
\* when it ends, and whether it ended by an exception of querySelector.
RECURSIVE FillFields(_, _, _, _)
FillFields(fields, i, values, filledFields) ==
    IF i > Len(fields)
    THEN [threw |-> FALSE, values |-> values, filledFields |-> filledFields]
    ELSE LET field == fields[i]
             input == IF field.useLabel
                      THEN findInputByLabel(field.selector)
                      ELSE querySelector(field.selector)
         IN  CASE input = -1 ->
                    [threw |-> TRUE, values |-> values,
                     filledFields |-> filledFields]
               [] input = 0 ->
                    FillFields(fields, i + 1, values,
                               Append(filledFields,
                                      NotFilled(field, "No input found for: \"" \o field.selector \o "\"")))
               [] OTHER ->
                    LET step == FillInput(field, input, values)
                    IN  FillFields(fields, i + 1, step.values,
                                   Append(filledFields, step.entry))

\* results.filter(r => r.filled).length and its complement.
CountFilled(results, filled) ==
    Cardinality({r \in DOMAIN results : results[r].filled = filled})

\* fillForm from its entry to "await session.getPage()".
FillFormCall ==
    /\ form.pc = "start"
    /\ form' = [form EXCEPT !.pc = "awaitGetPage"]
    /\ UNCHANGED <<session, world, procs, server, nav, shot, js, snap, listing>>
    /\ UNCHANGED pageVars

\* getPage returned: the script runs in the page over all the fields; an
\* exception of the script rejects page.evaluate and the handler rethrows.
FillFormScript ==
    /\ form.pc = "awaitGetPage"
    /\ LET run == FillFields(form.fields, 1, form.values, <<>>)
       IN  form' = IF run.threw
                   THEN [form EXCEPT !.pc = "threw", !.values = run.values]
                   ELSE [form EXCEPT !.pc = "waiting", !.values = run.values,
                                     !.results = run.filledFields]
    /\ UNCHANGED <<session, world, procs, server, nav, shot, js, snap, listing>>
    /\ UNCHANGED pageVars

\* After waitForTimeout: the counts and the result text.
FillFormFinish ==
    /\ form.pc = "waiting"
    /\ form' = [form EXCEPT !.pc = "returned",
                            !.successCount = CountFilled(form.results, TRUE),
                            !.failureCount = CountFilled(form.results, FALSE)]
    /\ UNCHANGED <<session, world, procs, server, nav, shot, js, snap, listing>>
    /\ UNCHANGED pageVars

\* Longest fields array of a call.
MaxFields == 2

\* The fields of the calls.
FormFields ==
    {[selector |-> "#text", value |-> "x", useLabel |-> FALSE],
     [selector |-> "input", value |-> "", useLabel |-> FALSE],
     [selector |-> "#select", value |-> "Alpha", useLabel |-> FALSE],
     [selector |-> "#select", value |-> "zzz", useLabel |-> FALSE],
     [selector |-> "#file", value |-> "x", useLabel |-> FALSE],
     [selector |-> "#check", value |-> "False", useLabel |-> FALSE],
     [selector |-> "#none", value |-> "x", useLabel |-> FALSE],
     [selector |-> "##", value |-> "x", useLabel |-> FALSE],
     [selector |-> "Name", value |-> "y", useLabel |-> TRUE],
     [selector |-> "agree", value |-> "maybe", useLabel |-> TRUE],
     [selector |-> "##", value |-> "y", useLabel |-> TRUE]}

FieldLists ==
    UNION {[1..n -> FormFields] : n \in 0..MaxFields}

InitFill ==
    /\ PageIdle
    /\ session = NewSession
    /\ world = NoWorld
    /\ procs = <<>>
    /\ server = NoServer
    /\ nav = NoNav
    /\ shot = NoShot
    /\ js = NoJs
    /\ snap = NoSnap
    /\ listing = NoListing
    /\ \E fields \in FieldLists :
         form = [NoForm EXCEPT !.pc = "start", !.fields = fields,
                               !.values = InitialValues]

NextFill ==
    \/ FillFormCall
    \/ FillFormScript
    \/ FillFormFinish

SpecFill == InitFill /\ [][NextFill]_vars

\* --------------------------------------------------------------- getElements

ELEMENT_TYPES == {"all", "buttons", "links", "inputs", "clickable"}

ELEMENTS_PER_PAGE == 20

Max(a, b) == IF a > b THEN a ELSE b

\* Array.prototype.slice(start, end): a negative index counts from the end
\* of the array, and both are clamped to the array.
slice(array, start, end) ==
    LET len == Len(array)
        k == IF start < 0 THEN Max(len + start, 0) ELSE Min(start, len)
        final == IF end < 0 THEN Max(len + end, 0) ELSE Min(end, len)
    IN  IF final > k THEN SubSeq(array, k + 1, final) ELSE <<>>

\* Math.ceil(a / b) for a >= 0 and b > 0.
MathCeil(a, b) == (a + b - 1) \div b

\* isInViewport on the elements of the page: all of them, those at even
\* positions, or none.
isInViewport(viewport, element) ==
    CASE viewport = "all"  -> TRUE
      [] viewport = "even" -> element % 2 = 0
      [] OTHER             -> FALSE

\* The script of getElements on a page whose selector matches the elements
\* 1..matching: the elements kept by the scope, each with its index in the
\* list.
FilteredElements(matching, viewport, scope) ==
    LET allMatching == [e \in 1..matching |-> e]
        filteredElements ==
            IF scope = "viewport"
            THEN SelectSeq(allMatching, LAMBDA e : isInViewport(viewport, e))
            ELSE allMatching
    IN  [index \in DOMAIN filteredElements |->
           [index |-> index - 1, element |-> filteredElements[index]]]

\* The pagination of the handler: the elements of the page with their
\* labels, the page count and the hint.
Paginate(elements, pageNumber) ==
    LET elementsPerPage == ELEMENTS_PER_PAGE
        startIndex == (pageNumber - 1) * elementsPerPage
        endIndex == startIndex + elementsPerPage
        paginatedElements == slice(elements, startIndex, endIndex)
        totalPages == MathCeil(Len(elements), elementsPerPage)
    IN  [totalPages |-> totalPages,
         showing |-> Len(elements) > elementsPerPage,
         shown |-> [idx \in DOMAIN paginatedElements |->
                      [paginatedElements[idx] EXCEPT
                         !.index = startIndex + (idx - 1)]],
         hint |-> IF pageNumber < totalPages
                  THEN [given |-> TRUE, page |-> pageNumber + 1]
                  ELSE [given |-> FALSE, page |-> 0]]

\* getElements from its entry to "await session.getPage()".
GetElementsCall ==
    /\ listing.pc = "start"
    /\ listing' = [listing EXCEPT !.pc = "awaitGetPage"]
    /\ UNCHANGED <<session, world, procs, server, nav, shot, js, snap, form>>
    /\ UNCHANGED pageVars

\* getPage returned: the defaults of the arguments, and the script, which
\* throws for a type that is not an element type.
GetElementsScript ==
    /\ listing.pc = "awaitGetPage"
    /\ LET elementType == IF listing.args.type = "undefined" THEN "clickable"
                          ELSE listing.args.type
           searchScope == IF listing.args.scope = "undefined" THEN "viewport"
                          ELSE listing.args.scope
           pageNumber == IF listing.args.page.given THEN listing.args.page.value
                         ELSE 1
       IN  listing' =
             IF elementType \notin ELEMENT_TYPES
             THEN [listing EXCEPT !.pc = "threw"]
             ELSE [listing EXCEPT
                     !.pc = "evaluated",
                     !.pageNumber = pageNumber,
                     !.elements = FilteredElements(listing.matching,
                                                   listing.viewport,
                                                   searchScope)]
    /\ UNCHANGED <<session, world, procs, server, nav, shot, js, snap, form>>
    /\ UNCHANGED pageVars

\* The rest of the handler: pagination and the result text.
GetElementsFinish ==
    /\ listing.pc = "evaluated"
    /\ LET paged == Paginate(listing.elements, listing.pageNumber)
       IN  listing' = [listing EXCEPT !.pc = "returned",
                                      !.totalPages = paged.totalPages,
                                      !.showing = paged.showing,
                                      !.shown = paged.shown,
                                      !.hint = paged.hint]
    /\ UNCHANGED <<session, world, procs, server, nav, shot, js, snap, form>>
    /\ UNCHANGED pageVars

\* Most elements the selector matches on a page.
MaxElements == 45

\* Page numbers of the calls: -MaxPage..MaxPage, or none.
MaxPage == 4

PageArguments ==
    {[given |-> FALSE, value |-> 0]}
      \cup {[given |-> TRUE, value |-> p] : p \in (0 - MaxPage)..MaxPage}

InitElements ==
    /\ PageIdle
    /\ session = NewSession
    /\ world = NoWorld
    /\ procs = <<>>
    /\ server = NoServer
    /\ nav = NoNav
    /\ shot = NoShot
    /\ js = NoJs
    /\ snap = NoSnap
    /\ form = NoForm
    /\ \E matching \in 0..MaxElements, viewport \in {"all", "even", "none"},
          type \in {"undefined", "links", "button"},
          scope \in {"undefined", "all"}, pageArg \in PageArguments :
         listing = [NoListing EXCEPT
                      !.pc = "start", !.matching = matching,
                      !.viewport = viewport,
                      !.args = [type |-> type, scope |-> scope,
                                page |-> pageArg]]

NextElements ==
    \/ GetElementsCall
    \/ GetElementsScript
    \/ GetElementsFinish

SpecElements == InitElements /\ [][NextElements]_vars

\* ------------------------------------------------------------- properties

\* The reference match set and order, stated without the scripts' loops.
\* An element matches when its own text node contains the text or its
\* trimmed full text equals the text.
TextMatches(d, el, text) ==
    \/ Includes(d.text[el], text)
    \/ Trim(textContent(d, el)) = text

\* Every element that matches, script and style elements included.
AllTextMatches(d, text) == {el \in DOMAIN d.parent : TextMatches(d, el, text)}

\* The matches that are not script or style elements.
ContentMatches(d, text) ==
    {el \in AllTextMatches(d, text) : d.kind[el].tag \notin {"script", "style"}}

RefDepth(d, el) == Cardinality({a \in DOMAIN d.parent : IsAncestor(d, a, el)})

\* The position of el in M sorted by depth descending, then document order.
RefRank(d, M, el) ==
    1 + Cardinality({f \in M : \/ RefDepth(d, f) > RefDepth(d, el)
                                \/ /\ RefDepth(d, f) = RefDepth(d, el)
                                   /\ f < el})

RefKth(d, M, k) == CHOOSE el \in M : RefRank(d, M, el) = k

ScriptRan == pc \in {"evaluated", "done"}

\* C1, as stated: with N the number of elements whose text node contains the
\* query or whose trimmed full text equals it, clickText and extractHTML
\* select for occurrence k in 1..N the k-th of these elements sorted by depth
\* descending, equal depths in document order.
C1_AllMatchesKth ==
    (ScriptRan /\ call.occurrence \in 1..Cardinality(AllTextMatches(dom, call.text)))
        => candidate = RefKth(dom, AllTextMatches(dom, call.text), call.occurrence)

\* C1, amended: the same with the matches restricted to the elements that
\* are not SCRIPT or STYLE elements.
C1_ContentMatchesKth ==
    (ScriptRan /\ call.occurrence \in 1..Cardinality(ContentMatches(dom, call.text)))
        => candidate = RefKth(dom, ContentMatches(dom, call.text), call.occurrence)

\* Two matches of equal depth; occurrence 2 selects the later one.
C1_Witness ==
    /\ ScriptRan
    /\ call.tool = "extractHTML"
    /\ call.occurrence = 2
    /\ \E a, b \in ContentMatches(dom, call.text) :
         a < b /\ RefDepth(dom, a) = RefDepth(dom, b) /\ candidate = b

\* C2: with N >= 1 matches, clickText with occurrence N + 1 fails with
\* OutOfRange, the message reports N, and no event is dispatched.
C2_OutOfRangeReportsN ==
    LET N == Cardinality(ContentMatches(dom, call.text))
    IN  (call.tool = "clickText" /\ N >= 1 /\ call.occurrence = N + 1)
            => /\ events = <<>>
               /\ ScriptRan => (result.status = "returned" /\ ~result.clicked)
               /\ pc = "done" => /\ outcome.kind = "OutOfRange"
                                 /\ outcome.matches = N
                                 /\ outcome.occurrence = N + 1

C2_Witness ==
    /\ pc = "done"
    /\ call.tool = "clickText"
    /\ Cardinality(ContentMatches(dom, call.text)) = 2
    /\ call.occurrence = 3
    /\ outcome.kind = "OutOfRange"

\* C3: with zero matches clickText fails with NotFound for every
\* occurrence, never with OutOfRange, and dispatches no event.
C3_NotFoundWhenNoMatch ==
    (call.tool = "clickText" /\ ContentMatches(dom, call.text) = {})
        => /\ events = <<>>
           /\ outcome.kind # "OutOfRange"
           /\ pc = "done" => outcome.kind = "NotFound"

C3_Witness ==
    /\ pc = "done"
    /\ call.tool = "clickText"
    /\ ContentMatches(dom, call.text) = {}
    /\ call.occurrence < 1
    /\ outcome.kind = "NotFound"

\* C4: with N >= 1 matches every occurrence outside 1..N, 0 and negative
\* values included, makes clickText fail with OutOfRange; a candidate is
\* selected only when 1 <= occurrence <= N.
C4_OutsideRangeIsOutOfRange ==
    LET N == Cardinality(ContentMatches(dom, call.text))
    IN  (call.tool = "clickText" /\ N >= 1 /\ pc = "done")
            => /\ call.occurrence \notin 1..N => outcome.kind = "OutOfRange"
               /\ candidate # 0 => call.occurrence \in 1..N

\* The clickable ancestors of el that lie below document.body.
ClickableAncestors(d, el) ==
    {a \in DOMAIN d.parent :
        IsAncestor(d, a, el) /\ IsAncestor(d, Body, a) /\ isClickable(d, a)}

ClickableDescendantsWithText(d, el, text) ==
    {c \in DOMAIN d.parent : IsAncestor(d, el, c) /\ isClickable(d, c)
                   /\ Includes(textContent(d, c), text)}

ListedInteractable(k) ==
    \/ k.tag \in CLICKABLE_TAGS
    \/ k.onclick
    \/ k.role \in CLICKABLE_ROLES
    \/ k.tabindex
    \/ k.cursor = "pointer"

C10_StrategyChain ==
    \A i \in DOMAIN events :
        /\ events[i].kind = "Native" => i = 1
        /\ events[i].kind = "MouseEvent"
             => (i = 1 \/ (events[i - 1].kind = "Native" /\ events[i - 1].threw))
        /\ events[i].kind = "Event"
             => (i > 1 /\ events[i - 1].kind = "MouseEvent" /\ events[i - 1].threw)


\* The element fails the visibility check of clickSelector.
FailsVisibilityCheck(e) ==
    /\ e.present
    /\ \/ e.width = 0
       \/ e.height = 0
       \/ e.visibility = "hidden"
       \/ e.display = "none"
       \/ e.disabled

PassesVisibilityCheck(e) == e.present /\ ~FailsVisibilityCheck(e)

\* The native clicks invoked so far.
NativeClicks == {i \in DOMAIN events : events[i].kind = "Native" /\ events[i].type = "click"}

\* C7: in clickSelector, once a query returns an element that fails the
\* visibility check, the script ends with the not-clickable result: no
\* later query, attempt or wait, no click, and the handler throws
\* NotInteractable, not NotFound.
C7_HiddenEndsAtOnce ==
    \A i \in DOMAIN sel.seen :
        (call.tool = "clickSelector" /\ FailsVisibilityCheck(sel.seen[i]))
            => /\ i = Len(sel.seen)
               /\ sel.queries = i
               /\ sel.waits = i \div 2
               /\ sel.attempt = (i + 1) \div 2
               /\ pc \in {"evaluated", "done"}
               /\ result.status = "returned"
               /\ ~result.clicked
               /\ result.reason = "not clickable"
               /\ events = <<>>
               /\ pc = "done" => outcome.kind = "NotInteractable"

\* A display: none element first seen by the second query of attempt 2.
C7_Witness ==
    /\ pc = "done"
    /\ call.tool = "clickSelector"
    /\ Len(sel.seen) = 4
    /\ sel.seen[4].display = "none"
    /\ sel.attempt = 2
    /\ outcome.kind = "NotInteractable"

NeverMatched == \A i \in DOMAIN sel.seen : ~sel.seen[i].present

\* C8, as stated: when the selector never matches, clickSelector and
\* hoverSelector end with NotFound after exactly 3 attempts of one query
\* and one 1000 ms wait each, so after at most 3 queries and 3 waits, and
\* dispatch no event.
C8_OneQueryPerAttempt ==
    (IsSelectorTool /\ pc = "done" /\ NeverMatched)
        => /\ outcome.kind = "NotFound"
           /\ sel.attempt - 1 = MaxAttempts
           /\ sel.queries <= MaxAttempts
           /\ sel.waits <= MaxAttempts
           /\ events = <<>>

\* C8, amended: when the selector never matches, both tools end with
\* NotFound after exactly 3 attempts; each attempt makes two queries, one
\* before and one after its 1000 ms wait, so 6 queries and 3 waits occur;
\* no event is dispatched.
C8_TwoQueriesPerAttempt ==
    (IsSelectorTool /\ NeverMatched)
        => /\ events = <<>>
           /\ sel.queries <= 2 * MaxAttempts
           /\ sel.waits <= MaxAttempts
           /\ sel.waitedMs = sel.waits * RetryDelayMs
           /\ pc \in {"evaluated", "done"}
                => /\ sel.attempt - 1 = MaxAttempts
                   /\ sel.queries = 2 * MaxAttempts
                   /\ sel.waits = MaxAttempts
                   /\ result.reason = "not found"
           /\ pc = "done" => outcome.kind = "NotFound"

C8_Witness ==
    /\ pc = "done"
    /\ call.tool = "hoverSelector"
    /\ NeverMatched
    /\ sel.queries = 6
    /\ sel.waits = 3
    /\ outcome.kind = "NotFound"

\* C9: in clickSelector, whatever the element does between the queries,
\* the loop stops at the first query that returns a visible match:
\* element.click() is invoked once when the result has found true, never
\* when it has found false, and no query follows the click.
C9_ClickOnceAtFirstVisible ==
    call.tool = "clickSelector"
        => /\ Cardinality(NativeClicks) <= 1
           /\ (result.status = "returned" /\ result.clicked)
                => Cardinality(NativeClicks) = 1
           /\ (result.status = "returned" /\ ~result.clicked)
                => Cardinality(NativeClicks) = 0
           /\ \A i \in DOMAIN sel.seen :
                PassesVisibilityCheck(sel.seen[i])
                    => /\ i = Len(sel.seen)
                       /\ sel.queries = i
                       /\ pc \in {"evaluated", "done"}
                       /\ result.status = "threw" \/ result.clicked
           /\ NativeClicks # {}
                => /\ pc \in {"evaluated", "done"}
                   /\ sel.seen # <<>>
                   /\ PassesVisibilityCheck(sel.seen[Len(sel.seen)])

\* The element is absent for three queries, then visible, and is clicked.
C9_Witness ==
    /\ pc = "done"
    /\ call.tool = "clickSelector"
    /\ Len(sel.seen) = 4
    /\ PassesVisibilityCheck(sel.seen[4])
    /\ Cardinality(NativeClicks) = 1
    /\ result.clicked
    /\ outcome.kind = "ok"

\* A click event of any strategy.
IsClick(e) == e.type = "click"

\* C11: in clickText, clickPosition and clickSelector a native click that
\* throws is followed by a later strategy and is not surfaced: the script or
\* the call fails only when every strategy it attempted threw.
C11_NativeThrowRecovered ==
    call.tool \in ClickTools
        => \A i \in DOMAIN events :
             (events[i].kind = "Native" /\ IsClick(events[i]) /\ events[i].threw)
                 => /\ i < Len(events)
                    /\ (result.status = "threw" \/ outcome.kind = "ScriptError")
                         => \A j \in DOMAIN events : events[j].threw

\* The anchors that are el or contain it, and the nearest of them (0: none).
AnchorsAround(d, el) ==
    {a \in DOMAIN d.parent : (a = el \/ IsAncestor(d, a, el)) /\ d.kind[a].tag = "a"}

NearestAnchor(d, el) ==
    IF AnchorsAround(d, el) = {} THEN 0
    ELSE CHOOSE a \in AnchorsAround(d, el) :
             \A b \in AnchorsAround(d, el) : b = a \/ IsAncestor(d, b, a)

\* The number of browsing contexts after the browser follows anchor a: an
\* anchor with a target attribute opens its document in another context.
ContextsAfterFollowing(pg, a) == IF pg.target[a] THEN 2 ELSE 1

\* C12: in the three click tools, whenever a click event is dispatched on an
\* element that is an anchor or lies inside one, the nearest anchor's target
\* attribute has already been removed and window.open has already been
\* replaced by a function that navigates the current window and returns
\* null, so neither following the link nor a call of window.open adds a
\* browsing context.
C12_InterceptedBeforeClick ==
    call.tool \in ClickTools
        => \A i \in DOMAIN events :
             LET e == events[i]
                 a == NearestAnchor(dom, e.target)
             IN  (IsClick(e) /\ a # 0)
                     => /\ ~e.page.target[a]
                        /\ e.page.windowOpen = "patched"
                        /\ windowOpen(e.page, "u") =
                             [contexts |-> 1, location |-> "u", returns |-> "null"]
                        /\ windowOpen(e.page, "").contexts = 1
                        /\ ContextsAfterFollowing(e.page, a) = 1

\* clickText on a text inside <a target="_blank">: the anchor is clicked
\* with its target attribute gone.
C12_Witness ==
    /\ pc = "done"
    /\ call.tool = "clickText"
    /\ candidate # 0
    /\ resolved # candidate
    /\ NearestAnchor(dom, candidate) = resolved
    /\ dom.kind[resolved].target
    /\ ~page.target[resolved]
    /\ events # <<>>
    /\ ~events[1].threw
    /\ outcome.kind = "ok"

\* No caller of the session is inside a call.
Quiescent == \A p \in DOMAIN procs : procs[p].pc = "idle"

LiveBrowsers == {b \in DOMAIN world.browsers : world.browsers[b].open}

LivePages == {g \in DOMAIN world.pages : world.pages[g].open}

\* C13: after any interleaving of getPage and close calls at most one
\* browser and at most one page are live, and every live browser or page
\* is the one the session references.
C13_AtMostOneLive ==
    Quiescent
        => /\ Cardinality(LiveBrowsers) <= 1
           /\ Cardinality(LivePages) <= 1
           /\ \A b \in LiveBrowsers : session.browser = b
           /\ \A g \in LivePages : session.page = g

\* The getPage calls that have ended.
EndedGetPageCalls ==
    {c \in DOMAIN world.calls :
        world.calls[c].op = "getPage" /\ world.calls[c].status # "running"}

\* The call asks for the mode the session is in.
KeepsMode(k) ==
    k.headless = "undefined" \/ k.headless = k.before.currentHeadlessMode

\* C15: no browser is launched before the first getPage call; a getPage
\* call whose flag is omitted or equals the current mode, made while a
\* browser exists, launches nothing and returns the page the previous call
\* returned; a call whose flag differs closes the existing browser, then
\* launches one in the requested mode, records that mode as current and
\* returns a page created by this call.
C15_LazyLaunchAndRelaunch ==
    /\ (\A c \in DOMAIN world.calls : world.calls[c].op # "getPage")
          => world.browsers = <<>>
    /\ \A c \in EndedGetPageCalls :
         LET k == world.calls[c]
             n == Len(k.ops)
         IN  /\ (KeepsMode(k) /\ k.before.browser # 0)
                   => /\ k.ops = <<>>
                      /\ k.status = "returned"
                      /\ c > 1
                      /\ k.returned # 0
                      /\ k.returned = world.calls[c - 1].returned
                      /\ k.after = k.before
             /\ ~KeepsMode(k)
                   => /\ n = IF k.before.browser # 0 THEN 3 ELSE 2
                      /\ k.before.browser # 0
                           => k.ops[1] = [op |-> "close", id |-> k.before.browser]
                      /\ k.ops[n - 1].op = "launch"
                      /\ world.browsers[k.ops[n - 1].id].headless = k.headless
                      /\ k.ops[n].op = "newPage"
                      /\ world.pages[k.ops[n].id].browser = k.ops[n - 1].id
                      /\ k.status = "returned"
                      /\ k.returned = k.ops[n].id
                      /\ \A d \in 1..(c - 1) : world.calls[d].returned # k.returned
                      /\ k.after = [browser |-> k.ops[n - 1].id,
                                    page |-> k.returned,
                                    currentHeadlessMode |-> k.headless]

\* getPage(), getPage() and getPage(false): the second call returns the
\* page of the first, the third closes the browser and launches a headed one.
C15_Witness ==
    /\ Len(world.calls) = 3
    /\ Quiescent
    /\ \A c \in 1..3 : world.calls[c].op = "getPage"
    /\ world.calls[2].ops = <<>>
    /\ world.calls[2].returned = world.calls[1].returned
    /\ world.calls[3].headless = "false"
    /\ Len(world.calls[3].ops) = 3
    /\ ~world.browsers[1].open
    /\ world.browsers[2].open
    /\ session.page = world.calls[3].returned

\* The calls whose handler has started and not yet returned or thrown.
ActiveHandlers == {c \in DOMAIN server.calls : server.calls[c].pc = "running"}

\* C14: tool calls are serialized: no handler starts while another is
\* suspended, so at most one handler is active on the page at any time.
C14_Serialized == Cardinality(ActiveHandlers) <= 1

\* The handler invocations made for call c.
InvocationsOf(c) == {i \in DOMAIN server.invoked : server.invoked[i].call = c}

Registered(name) == \E i \in DOMAIN tools : tools[i] = name

\* C16: for a registered name the dispatcher invokes exactly one handler,
\* that of the tool with the requested name, and answers with the handler's
\* result or error unchanged; for any other name it throws 'Unknown tool',
\* invokes no handler and hands the session to nobody.
C16_DispatchByName ==
    \A c \in DOMAIN server.calls :
        LET k == server.calls[c]
        IN  /\ Registered(k.name)
                  => /\ Cardinality(InvocationsOf(c)) = 1
                     /\ \A i \in InvocationsOf(c) :
                          tools[server.invoked[i].tool] = k.name
                     /\ k.pc = "running" => k.response.kind = "none"
                     /\ k.pc # "running"
                          => /\ k.response = k.handler
                             /\ k.pc = "returned" <=> k.handler.kind = "result"
                             /\ k.pc = "threw" <=> k.handler.kind = "error"
            /\ ~Registered(k.name)
                  => /\ k.pc = "threw"
                     /\ k.response = [kind |-> "error", value |-> "Unknown tool"]
                     /\ InvocationsOf(c) = {}
                     /\ ~k.session

\* An unknown name is refused, and a clickText call is answered with the
\* error its handler threw.
C16_Witness ==
    /\ Len(server.calls) = 2
    /\ server.calls[1].name = "executeJavaScript"
    /\ server.calls[1].pc = "threw"
    /\ server.calls[2].name = "clickText"
    /\ server.calls[2].response = [kind |-> "error", value |-> "error B"]
    /\ Len(server.invoked) = 1
    /\ tools[server.invoked[1].tool] = "clickText"

NavEnded == nav.pc \in {"returned", "threw"}

\* The steps after step i all completed.
LaterStepsOk(i) ==
    \A j \in (i + 1)..Len(nav.steps) : nav.steps[j].outcome = "ok"

\* C17: in navigate a selector wait happens only after a successful load;
\* when it times out or fails, the handler still makes the stabilization
\* wait next and returns the success result (unless a later step fails);
\* when page.goto times out or fails, that error is thrown and no selector
\* wait and no stabilization wait takes place.
C17_SelectorWaitBestEffort ==
    \A i \in DOMAIN nav.steps :
        LET st == nav.steps[i]
        IN  /\ st.step = "waitForSelector"
                  => /\ i > 1
                     /\ nav.steps[i - 1].step = "goto"
                     /\ nav.steps[i - 1].outcome = "ok"
                     /\ i < Len(nav.steps)
                          => nav.steps[i + 1].step = "waitForTimeout"
                     /\ i = Len(nav.steps) => nav.pc = "awaitStabilize"
                     /\ (NavEnded /\ LaterStepsOk(i))
                          => /\ nav.pc = "returned"
                             /\ nav.result = "Navigated to"
                             /\ nav.error = ""
            /\ (st.step = "goto" /\ st.outcome # "ok")
                  => /\ i = Len(nav.steps)
                     /\ nav.pc = "threw"
                     /\ nav.error = "goto " \o st.outcome
                     /\ \A j \in DOMAIN nav.steps :
                          nav.steps[j].step \notin {"waitForSelector",
                                                    "waitForTimeout"}

\* The selector wait timed out after 500 ms and the call returned.
C17_Witness ==
    /\ nav.pc = "returned"
    /\ nav.timeout = 1000
    /\ Len(nav.steps) = 5
    /\ nav.steps[2].waitUntil = "domcontentloaded"
    /\ nav.steps[3] = [step |-> "waitForSelector", timeout |-> 500,
                       waitUntil |-> "", outcome |-> "timeout"]
    /\ nav.steps[4] = [step |-> "waitForTimeout", timeout |-> 2000,
                       waitUntil |-> "", outcome |-> "ok"]

\* The resize has been requested.
ResizeRequested == shot.pc \in {"awaitResize", "threw"} \/ shot.wasResized

\* r is an integer nearest to a / b.
IsRounded(r, a, b) == 2 * (a - r * b) <= b /\ 2 * (r * b - a) <= b

\* C18: for width W, height H and provider maximum M with W > M or H > M
\* the size processScreenshot requests has its longer side equal to M and
\* its other side equal to the rounded proportional value, both at most M;
\* 10000x5000 gives 8000x4000 for 'claude' and 2000x1000 without provider.
C18_ResizeToProviderMaximum ==
    LET W == shot.width
        H == shot.height
        M == shot.providerConfig.maxImageDimension
    IN  (/\ shot.pc \notin {"none", "start", "awaitMetadata"}
         /\ M # UndefinedNumber
         /\ (W > M \/ H > M))
            => /\ ResizeRequested
               /\ W >= H => /\ shot.newWidth = M
                            /\ IsRounded(shot.newHeight, M * H, W)
               /\ H >= W => /\ shot.newHeight = M
                            /\ IsRounded(shot.newWidth, M * W, H)
               /\ shot.newWidth <= M
               /\ shot.newHeight <= M
               /\ (W = 10000 /\ H = 5000 /\ shot.provider.value = "claude")
                    => (shot.newWidth = 8000 /\ shot.newHeight = 4000)
               /\ (W = 10000 /\ H = 5000 /\ ~shot.provider.given)
                    => (shot.newWidth = 2000 /\ shot.newHeight = 1000)

\* 10000x5000 with provider 'claude' has been resized to 8000x4000.
C18_Witness ==
    /\ shot.pc = "returned"
    /\ shot.provider = [given |-> TRUE, value |-> "claude"]
    /\ shot.width = 10000
    /\ shot.height = 5000
    /\ shot.wasResized
    /\ shot.processedImage = [width |-> 8000, height |-> 4000, buffer |-> "resized"]

\* C19: the result of processScreenshot has wasResized true exactly when
\* the width or the height exceeds the provider maximum; an image within
\* the maximum comes back as the input buffer, and no returned image is
\* larger than the input.
C19_ResizedIffExceeds ==
    LET W == shot.width
        H == shot.height
        M == shot.providerConfig.maxImageDimension
        exceeds == M # UndefinedNumber /\ (W > M \/ H > M)
    IN  /\ shot.pc = "returned"
             => /\ shot.wasResized <=> exceeds
                /\ ~exceeds => shot.processedImage =
                                  [width |-> W, height |-> H, buffer |-> "screenshot"]
                /\ shot.processedImage.width <= W
                /\ shot.processedImage.height <= H
        /\ shot.pc # "returned" => ~shot.wasResized
        /\ (shot.pc \in {"awaitResize", "threw"}) => exceeds

\* 800x600 without provider comes back unresized.
C19_Witness ==
    /\ shot.pc = "returned"
    /\ ~shot.provider.given
    /\ shot.width = 800
    /\ shot.height = 600
    /\ ~shot.wasResized
    /\ shot.processedImage.buffer = "screenshot"

\* The maximum the claim gives for a provider name.
ExpectedMaximum(provider) ==
    LET name == StringTrim(StringToLowerCase(provider.value))
    IN  IF ~provider.given \/ provider.value = "" THEN 2000
        ELSE IF Includes(name, "claude") \/ Includes(name, "anthropic") THEN 8000
        ELSE IF Includes(name, "gemini") \/ Includes(name, "google") THEN 3072
        ELSE IF Includes(name, "openai") \/ Includes(name, "gpt") THEN 2048
        ELSE 2000

ConfiguredEntries == {PROVIDER_CONFIGS[key] : key \in DOMAIN PROVIDER_CONFIGS}

\* C20: for every provider string getProviderConfig returns a configured
\* entry whose maximum is 8000 for a name that, trimmed and lower-cased,
\* equals or contains 'claude' or 'anthropic', 3072 for 'gemini' or
\* 'google', 2048 for 'openai' or 'gpt', and 2000 for an absent, empty or
\* unrecognized name, the earlier group winning when several occur.
C20_ProviderMaximum ==
    shot.pc \notin {"none", "start"}
        => /\ shot.providerConfig \in ConfiguredEntries
           /\ shot.providerConfig.maxImageDimension = ExpectedMaximum(shot.provider)

\* C21: in clickSelector and in hoverSelector a matched element that has
\* the disabled attribute, zero width or height, visibility hidden or
\* display none is found but not interactable: the script returns found
\* false for it, no event is dispatched to it and the call fails with
\* NotInteractable.
C21_DisabledNotInteractable ==
    \A i \in DOMAIN sel.seen :
        (IsSelectorTool /\ FailsVisibilityCheck(sel.seen[i]))
            => /\ i = Len(sel.seen)
               /\ events = <<>>
               /\ pc \in {"evaluated", "done"}
               /\ result.status = "returned"
               /\ ~result.clicked
               /\ pc = "done" => outcome.kind = "NotInteractable"

\* C22: for the same document, text and occurrence k, clickText,
\* extractHTML and hoverText report the match count of the one shared
\* heuristic (own text node contains the text or trimmed full text equals
\* it, deepest first) and pick its k-th candidate, and scrollToText
\* scrolls to its first candidate.
C22_SharedResolution ==
    LET ms == matchingElements(dom, call.text)
        k == IF call.tool = "scrollToText" THEN 1 ELSE call.occurrence
    IN  (ScriptRan /\ call.tool \in TextTools /\ result.status = "returned")
            => /\ result.totalMatches = Len(ms)
               /\ k \in DOMAIN ms => candidate = ms[k].element
               /\ k \notin DOMAIN ms => candidate = 0

\* C23: clickText fails with OutOfRange only when the occurrence k exceeds
\* the match count N; for 1 <= k <= N the call clicks or fails with another
\* error, also when the resolved target is not an HTMLElement.
C23_OutOfRangeOnlyBeyondCount ==
    LET N == Len(matchingElements(dom, call.text))
    IN  (call.tool = "clickText" /\ pc = "done")
            => /\ outcome.kind = "OutOfRange" => call.occurrence > N
               /\ call.occurrence \in 1..N
                    => \/ outcome.kind = "ok" /\ events # <<>>
                       \/ outcome.kind \notin {"ok", "OutOfRange"}

\* C24: when the candidate is not interactable and has both an
\* interactable descendant whose text contains the query and an
\* interactable ancestor below body, the resolver returns the first such
\* descendant in document order, not the ancestor; the resolved element is
\* always the candidate, a descendant of it, or an ancestor of it other
\* than document.body.
C24_DescendantBeforeAncestor ==
    (call.tool = "clickText" /\ ScriptRan /\ candidate # 0)
        => /\ (/\ ~isClickable(dom, candidate)
               /\ ClickableDescendantsWithText(dom, candidate, call.text) # {}
               /\ ClickableAncestors(dom, candidate) # {})
                => /\ resolved \in ClickableDescendantsWithText(dom, candidate,
                                                                call.text)
                   /\ \A c \in ClickableDescendantsWithText(dom, candidate,
                                                             call.text) :
                         resolved <= c
           /\ \/ resolved = candidate
              \/ IsAncestor(dom, candidate, resolved)
              \/ IsAncestor(dom, resolved, candidate) /\ resolved # Body

\* A candidate between an interactable ancestor and two interactable
\* descendants with the text: the first descendant is clicked.
C24_Witness ==
    /\ pc = "done"
    /\ call.tool = "clickText"
    /\ candidate # 0
    /\ ~isClickable(dom, candidate)
    /\ ClickableAncestors(dom, candidate) # {}
    /\ Cardinality(ClickableDescendantsWithText(dom, candidate, call.text)) = 2
    /\ IsAncestor(dom, candidate, resolved)
    /\ outcome.kind = "ok"

\* C25: when neither the candidate nor a descendant containing the text
\* nor an ancestor below body is interactable, the resolver returns the
\* candidate, the click is dispatched to it, and clickText reports clicked
\* true with the candidate's tag, as for a click on an interactable
\* element.
C25_FallbackClicksCandidate ==
    (/\ call.tool = "clickText"
     /\ ScriptRan
     /\ candidate # 0
     /\ ~isClickable(dom, candidate)
     /\ ClickableDescendantsWithText(dom, candidate, call.text) = {}
     /\ ClickableAncestors(dom, candidate) = {})
        => /\ resolved = candidate
           /\ events # <<>>
           /\ \A i \in DOMAIN events :
                events[i].type = "click" /\ events[i].target = candidate
           /\ result.status = "returned"
                => /\ result.clicked
                   /\ result.tagName = TagName(dom.kind[candidate])
                   /\ pc = "done" => outcome.kind = "ok"

\* The element a hover call resolved.
HoverTarget == IF call.tool = "hoverSelector" THEN sel.node ELSE resolved

\* C26: every successful hoverText, hoverPosition and hoverSelector call
\* dispatches mousemove, then mouseover, then mouseenter, each exactly
\* once, to the resolved element before the native hover is attempted,
\* and a failure of the native hover leaves the call successful.
C26_HoverEventsInOrder ==
    (/\ call.tool \in HoverTools
     /\ ScriptRan
     /\ result.status = "returned"
     /\ result.clicked)
        => /\ Len(events) >= 3
           /\ events[1].type = "mousemove"
           /\ events[2].type = "mouseover"
           /\ events[3].type = "mouseenter"
           /\ \A i \in 1..3 : /\ events[i].kind = "MouseEvent"
                               /\ events[i].target = HoverTarget
                               /\ ~events[i].threw
           /\ \A i \in DOMAIN events :
                i > 3 => /\ i = 4
                         /\ pc = "done"
                         /\ events[i].kind = "Native"
                         /\ events[i].type = "hover"
           /\ pc = "done" => outcome.kind = "ok"

\* A hoverText call whose native hover threw after the three events and
\* that still succeeded.
C26_Witness ==
    /\ pc = "done"
    /\ call.tool = "hoverText"
    /\ call.occurrence = 2
    /\ Len(events) = 4
    /\ events[3].type = "mouseenter"
    /\ events[4].kind = "Native"
    /\ events[4].threw
    /\ outcome.kind = "ok"

\* C27: executeJavaScript applies the side effects of the caller's code at
\* most once per call: the code is evaluated a second time, as a function
\* body, only when the first evaluation, as a returned expression, had no
\* effect on the page.
C27_EffectsAtMostOnce ==
    js.pc \in {"evaluated", "returned", "threw"}
        => /\ Len(js.runs) = 2 => js.runs[1].effects = 0
           /\ js.effects - js.before <= Programs[js.code].asBody.effects

\* C28: in sequential use, whenever getPage returns normally hasPage() is
\* true, so the screenshot tool never fails with 'No page loaded'; a
\* screenshot called first on a new session launches a browser, creates a
\* page and captures that page.
C28_NoPageLoadedUnreachable ==
    /\ \A c \in DOMAIN world.calls :
         (world.calls[c].op = "getPage" /\ world.calls[c].status = "returned")
            => /\ hasPage(world.calls[c].after)
               /\ world.calls[c].returned = world.calls[c].after.page
    /\ snap.error # "No page loaded"
    /\ (snap.call = 1 /\ snap.pc \in {"capturing", "returned"})
         => /\ snap.page = 1
            /\ world.calls[1].ops = <<[op |-> "launch", id |-> 1],
                                      [op |-> "newPage", id |-> 1]>>
            /\ Len(world.calls) = 1
                 => (world.pages[1].open /\ world.browsers[1].open)

\* The first call on a new session is a screenshot, and it returned the
\* capture of the page it made getPage create.
C28_Witness ==
    /\ snap.pc = "returned"
    /\ snap.call = 1
    /\ snap.page = 1
    /\ Len(world.browsers) = 1
    /\ hasPage(session)


\* C29: fillForm returns normally with one result entry per field, in the
\* order of the fields; a field whose input or option is missing or whose
\* fill throws is recorded as failed, the inputs hold what the fields
\* recorded as filled wrote, and the two counts add up to the number of
\* fields.
FieldFails(field) ==
    LET input == IF field.useLabel THEN findInputByLabel(field.selector)
                 ELSE querySelector(field.selector)
    IN  \/ input <= 0
        \/ /\ FormInputs[input].tag = "select"
           /\ MatchingOptions(input, field.value) = {}
        \/ /\ FormInputs[input].type = "file"
           /\ field.value # ""

RECURSIVE WrittenBy(_, _, _, _)
WrittenBy(fields, results, i, values) ==
    IF i > Len(results)
    THEN values
    ELSE IF results[i].filled
         THEN WrittenBy(fields, results, i + 1,
                        FillInput(fields[i],
                                  IF fields[i].useLabel
                                  THEN findInputByLabel(fields[i].selector)
                                  ELSE querySelector(fields[i].selector),
                                  values).values)
         ELSE WrittenBy(fields, results, i + 1, values)

C29_OneEntryPerField ==
    /\ form.pc # "threw"
    /\ form.pc \in {"waiting", "returned"} =>
         /\ Len(form.results) = Len(form.fields)
         /\ \A i \in DOMAIN form.fields :
              /\ form.results[i].selector = form.fields[i].selector
              /\ FieldFails(form.fields[i]) => ~form.results[i].filled
         /\ LET written == WrittenBy(form.fields, form.results, 1, InitialValues)
            IN  \A k \in DOMAIN form.values :
                  /\ form.values[k].value = written[k].value
                  /\ form.values[k].checked = written[k].checked
    /\ form.pc = "returned" =>
         form.successCount + form.failureCount = Len(form.fields)

\* C30: with N found elements, page p of 1..ceil(N/20) lists exactly the
\* elements 20(p-1)..min(20p, N)-1 of the full list, each labelled with its
\* index, and these pages together list every element once; the hint is
\* given exactly when p is less than the page count and a later non-empty
\* page exists; any other page number lists no element.
PageCount(N) == (N + 19) \div 20

ExpectedPage(elements, p) ==
    [i \in 1..(Min(20 * p, Len(elements)) - 20 * (p - 1)) |->
       [index |-> 20 * (p - 1) + i - 1,
        element |-> elements[20 * (p - 1) + i].element]]

C30_PagesPartitionElements ==
    listing.pc = "returned" =>
      LET N == Len(listing.elements)
          p == listing.pageNumber
      IN  /\ p \in 1..PageCount(N) =>
                listing.shown = ExpectedPage(listing.elements, p)
          /\ \A e \in DOMAIN listing.elements :
                Cardinality({q \in 1..PageCount(N) :
                               \E i \in DOMAIN Paginate(listing.elements, q).shown :
                                  Paginate(listing.elements, q).shown[i]
                                     = listing.elements[e]}) = 1
          /\ listing.hint.given <=>
                (p < PageCount(N) /\ \E q \in 1..PageCount(N) : q > p)
          /\ listing.hint.given => listing.hint.page = p + 1
          /\ p \notin 1..PageCount(N) => listing.shown = <<>>

====
